---- MODULE Spec2Model ----
(***************************************************************************)
(* State-machine model of the UBI Chain Runtime (src/runtime/src/lib.rs):  *)
(* the account ledger, UBI streaming, the 1% transfer fee, the fee pool    *)
(* and the pull-based dividend distribution.                               *)
(*                                                                         *)
(* Representation notes.                                                   *)
(*  - An address string is a run-length encoded sequence of characters,    *)
(*    so that is_valid_eth_address can look at its length, prefix and      *)
(*    characters.                                                          *)
(*  - SystemTime is a count of clock ticks, TicksPerSec ticks to a second  *)
(*    (the real clock has 10^9), so that Duration::as_secs truncates.      *)
(*  - dividend_per_token and the last dividend points are u64 values that  *)
(*    exceed the checker's integers; they are written as two base-10^9     *)
(*    digits <<whole, frac>> standing for whole * 10^9 + frac.             *)
(*  - A SHA-256 digest is the term it was computed from, so that two       *)
(*    digests are equal exactly when their inputs are.                     *)
(*  - A checkpoint file is the sequence of the fields written to it; a     *)
(*    write that fails leaves a prefix of that sequence.                   *)
(*  - A call that never returns ends in "Deadlock" (its thread waits for   *)
(*    ever, holding its locks) or in "Panic" (its thread unwinds and the   *)
(*    mutexes it held stay poisoned).                                      *)
(***************************************************************************)
EXTENDS Integers, Sequences, FiniteSets, TLC

VARIABLES now, accounts, fee_pool, dividend_per_token, total_supply,
          last_dividend_points, unclaimed_dividends, last, hist,
          state_tree, checkpoints, max_checkpoints, files, mutex, threads

vars == <<now, accounts, fee_pool, dividend_per_token, total_supply,
          last_dividend_points, unclaimed_dividends, last, hist,
          state_tree, checkpoints, max_checkpoints, files, mutex, threads>>

(* The checkpoint machinery: the Merkle tree, the checkpoint list and its *)
(* limit, the files of the checkpoint directory and the mutexes; and the  *)
(* threads that are inside an operation                                   *)
checkpoint_vars ==
    <<state_tree, checkpoints, max_checkpoints, files, mutex, threads>>

-----------------------------------------------------------------------------
(* Program constants *)

UBI_TOKENS_PER_HOUR == 1

DIVIDEND_PRECISION == 1000000000

SecsPerHour == 3600

(* Bounds of the model *)

TicksPerSec == 2

MaxSupply == 400

MaxRestarts == 2

TicksPerHour == SecsPerHour * TicksPerSec

(* Clock readings of the ledger specification: long enough to earn 150 tokens *)
Times == {h * TicksPerHour : h \in {0, 150}}

(* Clock readings of the UBI specification: whole hours and fractions of a second *)
FineTimes == {h * TicksPerHour + s : h \in {0, 1, 2}, s \in {0, 1}}

Amounts == {0, 150}

SmallAmounts == {0, 1}

SupplyAmounts == {100, 300}

-----------------------------------------------------------------------------
(* Address strings, run-length encoded: <<<<c1, n1>>, <<c2, n2>>, ...>> is *)
(* n1 times the character c1, then n2 times c2, ...                     *)

RECURSIVE StrLen(_)
StrLen(s) == IF s = <<>> THEN 0 ELSE s[1][2] + StrLen(Tail(s))

RECURSIVE CharAt(_, _)
(* the i-th character, counted from 1 *)
CharAt(s, i) == IF i <= s[1][2] THEN s[1][1] ELSE CharAt(Tail(s), i - s[1][2])

ADDR_1 == <<<<"0", 1>>, <<"x", 1>>, <<"1", 40>>>>

ADDR_2 == <<<<"0", 1>>, <<"x", 1>>, <<"2", 40>>>>

BAD_TEXT == <<<<"n", 1>>, <<"o", 1>>, <<"t", 1>>, <<"-", 1>>, <<"a", 1>>, <<"n", 1>>,
              <<"-", 1>>, <<"e", 1>>, <<"t", 1>>, <<"h", 1>>, <<"-", 1>>, <<"a", 1>>,
              <<"d", 2>>, <<"r", 1>>, <<"e", 1>>, <<"s", 2>>>>

BAD_SHORT == <<<<"0", 1>>, <<"x", 1>>, <<"1", 39>>>>

BAD_LONG == <<<<"0", 1>>, <<"x", 1>>, <<"1", 41>>>>

BAD_PREFIX == <<<<"1", 1>>, <<"x", 1>>, <<"1", 40>>>>

BAD_UPPER_X == <<<<"0", 1>>, <<"X", 1>>, <<"1", 40>>>>

BAD_HEX == <<<<"0", 1>>, <<"x", 1>>, <<"1", 39>>, <<"g", 1>>>>

ADDR_3 == <<<<"0", 1>>, <<"x", 1>>, <<"3", 40>>>>

ValidStrings == {ADDR_1, ADDR_2}

(* The holders of the dividend specifications *)
DividendStrings == {ADDR_1, ADDR_2, ADDR_3}

InvalidStrings == {BAD_TEXT, BAD_SHORT, BAD_LONG, BAD_PREFIX, BAD_UPPER_X, BAD_HEX}

Strings == ValidStrings \cup InvalidStrings

(* One address in two spellings: lower-case and upper-case hex letters *)
ADDR_LOWER == <<<<"0", 1>>, <<"x", 1>>, <<"a", 40>>>>

ADDR_UPPER == <<<<"0", 1>>, <<"x", 1>>, <<"A", 40>>>>

CaseStrings == {ADDR_LOWER, ADDR_UPPER}

NoAddr == <<>>

is_ascii_hexdigit(c) ==
    c \in {"0","1","2","3","4","5","6","7","8","9",
           "a","b","c","d","e","f","A","B","C","D","E","F"}

starts_with_0x(address) ==
    StrLen(address) >= 2 /\ CharAt(address, 1) = "0" /\ CharAt(address, 2) = "x"

(* A plausible slip: the length test left out *)
is_valid_eth_address_any_length(address) ==
    IF ~starts_with_0x(address)
    THEN FALSE
    ELSE \A i \in 3..StrLen(address) : is_ascii_hexdigit(CharAt(address, i))

is_valid_eth_address(address) ==
    IF ~starts_with_0x(address) \/ StrLen(address) # 42
    THEN FALSE
    ELSE \A i \in 3..StrLen(address) : is_ascii_hexdigit(CharAt(address, i))

(* The verdicts on the strings of the model, computed once *)
ValidAddress ==
    [s \in Strings \cup DividendStrings \cup CaseStrings |-> is_valid_eth_address(s)]

-----------------------------------------------------------------------------
(* Exact arithmetic on values too wide for the checker's integers *)

RECURSIVE MulModQR(_, _, _)
(* <<q, r>> with a * b = q * c + r and 0 <= r < c, for 0 <= a < c *)
MulModQR(a, b, c) ==
    IF b = 0 THEN <<0, 0>>
    ELSE LET h == MulModQR(a, b \div 2, c)
             dc == IF h[2] >= c - h[2] THEN 1 ELSE 0
             dq == 2 * h[1] + dc
             dr == IF dc = 1 THEN h[2] - (c - h[2]) ELSE h[2] + h[2]
             ac == IF b % 2 = 1 /\ dr >= c - a THEN 1 ELSE 0
         IN  IF b % 2 = 0 THEN <<dq, dr>>
             ELSE <<dq + ac, IF ac = 1 THEN dr - (c - a) ELSE dr + a>>

(* <<floor(a * b / c), (a * b) mod c>>, multiplying directly when the product fits *)
MulDivQR(a, b, c) ==
    IF a = 0 \/ b <= 2147483647 \div a
    THEN <<(a * b) \div c, (a * b) % c>>
    ELSE LET a0 == a % c
             b0 == b % c
             h == IF a0 <= b0 THEN MulModQR(b0, a0, c) ELSE MulModQR(a0, b0, c)
         IN  <<(a \div c) * b + a0 * (b \div c) + h[1], h[2]>>

(* floor(a * b / c) *)
MulDivFloor(a, b, c) == MulDivQR(a, b, c)[1]

(* Two-digit base-10^9 values <<whole, frac>> *)
FxZero == <<0, 0>>

FxAdd(x, y) ==
    IF x[2] + y[2] >= DIVIDEND_PRECISION
    THEN <<x[1] + y[1] + 1, x[2] + y[2] - DIVIDEND_PRECISION>>
    ELSE <<x[1] + y[1], x[2] + y[2]>>

FxSub(x, y) ==
    IF x[2] >= y[2]
    THEN <<x[1] - y[1], x[2] - y[2]>>
    ELSE <<x[1] - y[1] - 1, x[2] + DIVIDEND_PRECISION - y[2]>>

FxLeq(x, y) == x[1] < y[1] \/ (x[1] = y[1] /\ x[2] <= y[2])

(* (n * DIVIDEND_PRECISION) / d as a two-digit value *)
ScaledQuotient(n, d) == <<n \div d, MulDivFloor(n % d, DIVIDEND_PRECISION, d)>>

(* (n * x) / DIVIDEND_PRECISION for a two-digit x *)
ScaledProduct(n, x) == n * x[1] + MulDivFloor(n, x[2], DIVIDEND_PRECISION)

-----------------------------------------------------------------------------
(* Call records: the operation last invoked, its arguments and its result *)

NoAccount == [balance |-> 0, verified |-> FALSE, last_ubi_claim |-> 0]

(* [0; 32] *)
ZeroHash == <<"zero">>

(* StateCheckpoint; file_path is the timestamp in the name of the file *)
StateCheckpoint(timestamp, root, account_count, supply, pool, file_path) ==
    [timestamp |-> timestamp, root_hash |-> root, account_count |-> account_count,
     total_supply |-> supply, fee_pool |-> pool, file_path |-> file_path]

NoCheckpoint == StateCheckpoint(0, ZeroHash, 0, 0, 0, 0)

RetOk ==
    [kind |-> "Ok", val |-> 0, msg |-> "", account |-> NoAccount,
     checkpoint |-> NoCheckpoint]

RetAccount(acc) ==
    [kind |-> "Ok", val |-> 0, msg |-> "", account |-> acc,
     checkpoint |-> NoCheckpoint]

RetCheckpoint(c) == [RetOk EXCEPT !.checkpoint = c]

(* Option<StateCheckpoint> *)
RetNoCheckpoint == [RetOk EXCEPT !.kind = "None"]

(* a call that does not return: "Deadlock", "Panic" or "Blocked" *)
NoReturn(kind) == [RetOk EXCEPT !.kind = kind]

RetErr(kind, msg) ==
    [kind |-> kind, val |-> 0, msg |-> msg, account |-> NoAccount,
     checkpoint |-> NoCheckpoint]

RetVal(v) ==
    [kind |-> "Value", val |-> v, msg |-> "", account |-> NoAccount,
     checkpoint |-> NoCheckpoint]

RetBool(b) ==
    [kind |-> "Bool", val |-> IF b THEN 1 ELSE 0, msg |-> "", account |-> NoAccount,
     checkpoint |-> NoCheckpoint]

(* AccountState argument of a call that takes none *)
NoState == [base_balance |-> 0, last_update |-> 0, streaming_rate |-> 0]

Call(op, address, to_address, amount, ret) ==
    [op |-> op, address |-> address, to_address |-> to_address,
     amount |-> amount, force |-> FALSE, checkpoint |-> NoCheckpoint,
     state |-> NoState, ret |-> ret]

(* a call of an operation of the MerkleTree *)
MerkleCall(op, address, state, ret) ==
    [Call(op, address, NoAddr, 0, ret) EXCEPT !.state = state]

CheckpointCall(op, force, c, ret) ==
    [Call(op, NoAddr, NoAddr, 0, ret) EXCEPT !.force = force, !.checkpoint = c]

Get(m, k, d) == IF k \in DOMAIN m THEN m[k] ELSE d

-----------------------------------------------------------------------------
(* History: totals returned so far, kept to state the accounting claims *)

HistInit == [claimed |-> [a \in {} |-> 0], distributed |-> 0, claimed_since |-> {},
             ubi |-> [a \in {} |-> 0], created_at |-> [a \in {} |-> 0],
             snaps |-> <<>>, restarts |-> 0, committed |-> [a \in {} |-> 0],
             replaced |-> <<>>, balanced |-> TRUE]

HistAdd(f, k, v) == [a \in DOMAIN f \cup {k} |-> Get(f, a, 0) + IF a = k THEN v ELSE 0]

-----------------------------------------------------------------------------
(* MerkleNode and MerkleTree *)

(* MerkleNode::new_leaf of MerkleTree::serialize_account_state: the digest *)
(* of the address bytes and the three u64 fields                           *)
Sha256LeafWithoutRate(address, state) ==
    <<"leaf", address, state.base_balance, state.last_update, 0>>

Sha256Leaf(address, state) ==
    <<"leaf", address, state.base_balance, state.last_update, state.streaming_rate>>

(* MerkleNode::new_internal: the digest of two digests *)
Sha256Pair(left, right) == <<"node", left, right>>

AccountState(base_balance, last_update, streaming_rate) ==
    [base_balance |-> base_balance, last_update |-> last_update,
     streaming_rate |-> streaming_rate]

(* Option values: <<>> is None and <<v>> is Some(v) *)
None == <<>>

Some(v) == <<v>>

(* MerkleTree::new; leaf indices count from 0 as in the source *)
NewTree == [root |-> None, address_indices |-> [a \in {} |-> 0], leaves |-> <<>>]

DuplicateLast(nodes) == Append(nodes, nodes[Len(nodes)])

RECURSIVE PairUp(_)
(* one pass of the inner loop of rebuild: parents of neighbours, a node *)
(* left alone is carried up                                             *)
PairUp(nodes) ==
    IF nodes = <<>> THEN <<>>
    ELSE IF Len(nodes) = 1 THEN nodes
    ELSE <<Sha256Pair(nodes[1], nodes[2])>> \o PairUp(SubSeq(nodes, 3, Len(nodes)))

(* A plausible slip: an odd level above the leaves is left unpadded *)
PadLevelNever(level) == level

PadLevel(level) ==
    IF Len(level) % 2 = 1 /\ Len(level) > 1 THEN DuplicateLast(level) ELSE level

RECURSIVE BuildUp(_)
BuildUp(nodes) == IF Len(nodes) > 1 THEN BuildUp(PadLevel(PairUp(nodes))) ELSE nodes

(* MerkleTree::rebuild *)
RebuiltRoot(leaves) ==
    IF leaves = <<>> THEN None
    ELSE Some(BuildUp(IF Len(leaves) % 2 = 1 THEN DuplicateLast(leaves) ELSE leaves)[1])

(* A plausible slip: the leaf of a known address is appended again *)
UpdatedLeavesAppended(tree, address, state) ==
    Append(tree.leaves, Sha256Leaf(address, state))

(* MerkleTree::update_account *)
UpdatedLeaves(tree, address, state) ==
    IF address \in DOMAIN tree.address_indices
    THEN [tree.leaves EXCEPT ![tree.address_indices[address] + 1] = Sha256Leaf(address, state)]
    ELSE Append(tree.leaves, Sha256Leaf(address, state))

UpdatedIndices(tree, address) ==
    IF address \in DOMAIN tree.address_indices
    THEN tree.address_indices
    ELSE (address :> Len(tree.leaves)) @@ tree.address_indices

TreeUpdate(tree, address, state) ==
    [root |-> RebuiltRoot(UpdatedLeaves(tree, address, state)),
     address_indices |-> UpdatedIndices(tree, address),
     leaves |-> UpdatedLeaves(tree, address, state)]

(* MerkleTree::root_hash *)
root_hash(tree) == tree.root

RECURSIVE ProofLoop(_, _, _, _, _, _)
(* The loop of generate_proof. current_index - level_start is a usize      *)
(* subtraction: below 0 it panics in a build with overflow checks and      *)
(* wraps to an index far beyond the leaves in a build without (wrapped).   *)
ProofLoop(leaves, current_index, wrapped, level_size, level_start, proof) ==
    IF level_size <= 1 THEN [proof |-> proof, wrapped |-> wrapped]
    ELSE LET sibling_index == IF current_index % 2 = 0
                              THEN current_index + 1 ELSE current_index - 1
             is_right_sibling == current_index % 2 = 0
             pushed == IF /\ ~wrapped
                          /\ sibling_index < level_start + level_size
                          /\ sibling_index < Len(leaves)
                       THEN Append(proof, <<leaves[sibling_index + 1], is_right_sibling>>)
                       ELSE proof
             underflow == wrapped \/ current_index < level_start
             parent == IF underflow THEN current_index
                       ELSE level_start + (current_index - level_start) \div 2
             parent_size == (level_size + 1) \div 2
         IN  ProofLoop(leaves, parent, underflow, parent_size,
                       level_start + parent_size, pushed)

(* MerkleTree::generate_proof: the results the builds can give *)
generate_proof(tree, address) ==
    IF address \notin DOMAIN tree.address_indices
    THEN {[kind |-> "None", proof |-> <<>>]}
    ELSE LET r == ProofLoop(tree.leaves, tree.address_indices[address], FALSE,
                            Len(tree.leaves), 0, <<>>)
         IN  IF r.wrapped
             THEN {[kind |-> "Panic", proof |-> <<>>], [kind |-> "Some", proof |-> r.proof]}
             ELSE {[kind |-> "Some", proof |-> r.proof]}

RECURSIVE FoldProof(_, _)
FoldProof(current_hash, proof) ==
    IF proof = <<>> THEN current_hash
    ELSE FoldProof(IF proof[1][2]
                   THEN Sha256Pair(current_hash, proof[1][1])
                   ELSE Sha256Pair(proof[1][1], current_hash),
                   Tail(proof))

(* MerkleTree::verify_proof *)
verify_proof(root, address, state, proof) ==
    FoldProof(Sha256Leaf(address, state), proof) = root

-----------------------------------------------------------------------------
(* The checkpoint directory and the mutexes of the Runtime *)

(* No thread is inside an operation: calls are made one at a time *)
NoThreads == <<>>

(* max_checkpoints of Runtime::default *)
DefaultMaxCheckpoints == 10

(* files of the checkpoint directory, by the timestamp in their name *)
NoFiles == [t \in {} |-> <<>>]

(* the mutexes a create_checkpoint call holds when it calls prune_checkpoints *)
AllFree ==
    [m \in {"accounts", "fee_pool", "dividend_per_token", "total_supply",
            "last_dividend_points", "unclaimed_dividends", "state_tree",
            "checkpoints"} |-> "free"]

-----------------------------------------------------------------------------
(* Runtime::default *)

Init ==
    /\ now = 0
    /\ accounts = [a \in {} |-> NoAccount]
    /\ fee_pool = 0
    /\ dividend_per_token = FxZero
    /\ total_supply = 0
    /\ last_dividend_points = [a \in {} |-> FxZero]
    /\ unclaimed_dividends = [a \in {} |-> 0]
    /\ last = Call("new", NoAddr, NoAddr, 0, RetOk)
    /\ hist = HistInit
    /\ state_tree = NewTree
    /\ checkpoints = <<>>
    /\ max_checkpoints = DefaultMaxCheckpoints
    /\ threads = NoThreads
    /\ files = NoFiles
    /\ mutex = AllFree

(* The system clock read by SystemTime::now() moves forward between calls *)
Tick(T) ==
    /\ \E t \in T : t > now /\ now' = t
    /\ last' = Call("tick", NoAddr, NoAddr, 0, RetOk)
    /\ UNCHANGED <<checkpoint_vars, accounts, fee_pool, dividend_per_token, total_supply,
                   last_dividend_points, unclaimed_dividends, hist>>

-----------------------------------------------------------------------------
(* Runtime::create_account *)

NewAccount == [balance |-> 0, verified |-> TRUE, last_ubi_claim |-> now]

create_account(address) ==
    IF ~ValidAddress[address]
    THEN /\ last' = Call("create_account", address, NoAddr, 0, RetErr("InvalidAddress", ""))
         /\ UNCHANGED <<checkpoint_vars, now, accounts, fee_pool, dividend_per_token, total_supply,
                        last_dividend_points, unclaimed_dividends, hist>>
    ELSE IF address \in DOMAIN accounts
    THEN /\ last' = Call("create_account", address, NoAddr, 0, RetErr("AlreadyExists", ""))
         /\ UNCHANGED <<checkpoint_vars, now, accounts, fee_pool, dividend_per_token, total_supply,
                        last_dividend_points, unclaimed_dividends, hist>>
    ELSE /\ accounts' = (address :> NewAccount) @@ accounts
         /\ last' = Call("create_account", address, NoAddr, 0, RetAccount(NewAccount))
         /\ hist' = [hist EXCEPT !.created_at = (address :> now) @@ @]
         /\ UNCHANGED <<checkpoint_vars, now, fee_pool, dividend_per_token, total_supply,
                        last_dividend_points, unclaimed_dividends>>

(* Runtime::verify_account *)
verify_account(address) ==
    /\ accounts' = IF address \in DOMAIN accounts
                   THEN [accounts EXCEPT ![address].verified = TRUE]
                   ELSE accounts
    /\ last' = Call("verify_account", address, NoAddr, 0, RetBool(address \in DOMAIN accounts))
    /\ UNCHANGED <<checkpoint_vars, now, fee_pool, dividend_per_token, total_supply,
                   last_dividend_points, unclaimed_dividends, hist>>

(* Runtime::is_account_verified *)
is_account_verified(address) ==
    /\ last' = Call("is_account_verified", address, NoAddr, 0,
                    RetBool(IF address \in DOMAIN accounts
                            THEN accounts[address].verified ELSE FALSE))
    /\ UNCHANGED <<checkpoint_vars, now, accounts, fee_pool, dividend_per_token, total_supply,
                   last_dividend_points, unclaimed_dividends, hist>>

-----------------------------------------------------------------------------
(* Runtime::update_ubi_balance *)

(* now.duration_since(last_ubi_claim).unwrap_or(0).as_secs() *)
ElapsedSecs(account) ==
    IF now >= account.last_ubi_claim
    THEN (now - account.last_ubi_claim) \div TicksPerSec
    ELSE 0

UbiHours(account) == ElapsedSecs(account) \div SecsPerHour

(* now - Duration::from_secs(elapsed.as_secs() % 3600) *)
UbiNewClaimTime(account) == now - (ElapsedSecs(account) % SecsPerHour) * TicksPerSec

(* A plausible slip: the verified flag is not looked at *)
UbiGrantsUnverified(address) ==
    /\ address \in DOMAIN accounts
    /\ UbiHours(accounts[address]) > 0

UbiGrants(address) ==
    /\ address \in DOMAIN accounts
    /\ accounts[address].verified
    /\ UbiHours(accounts[address]) > 0

UbiTokens(address) ==
    IF UbiGrants(address)
    THEN UbiHours(accounts[address]) * UBI_TOKENS_PER_HOUR
    ELSE 0

UbiAccountsOrInsert(address) ==
    IF address \in DOMAIN accounts THEN accounts ELSE (address :> NewAccount) @@ accounts

UbiAccounts(address) ==
    IF UbiGrants(address)
    THEN [accounts EXCEPT
            ![address].balance = @ + UbiTokens(address),
            ![address].last_ubi_claim = UbiNewClaimTime(accounts[address])]
    ELSE accounts

update_ubi_balance(address) ==
    /\ accounts' = UbiAccounts(address)
    /\ last' = Call("update_ubi_balance", address, NoAddr, 0, RetVal(UbiTokens(address)))
    /\ hist' = [hist EXCEPT !.ubi = HistAdd(@, address, UbiTokens(address))]
    /\ UNCHANGED <<checkpoint_vars, now, fee_pool, dividend_per_token, total_supply,
                   last_dividend_points, unclaimed_dividends>>

(* Runtime::get_balance *)
get_balance(address) ==
    /\ accounts' = UbiAccounts(address)
    /\ last' = Call("get_balance", address, NoAddr, 0,
                    RetVal(IF address \in DOMAIN accounts
                           THEN UbiAccounts(address)[address].balance ELSE 0))
    /\ hist' = [hist EXCEPT !.ubi = HistAdd(@, address, UbiTokens(address))]
    /\ UNCHANGED <<checkpoint_vars, now, fee_pool, dividend_per_token, total_supply,
                   last_dividend_points, unclaimed_dividends>>

-----------------------------------------------------------------------------
(* Runtime::distribute_fees *)

RECURSIVE SumOver(_, _)
SumOver(f, S) ==
    IF S = {} THEN 0
    ELSE LET a == CHOOSE x \in S : TRUE IN f[a] + SumOver(f, S \ {a})

(* total_supply is the sum of the balances, as it is when the caller has *)
(* reported every mint and burn with update_total_supply                 *)
SupplyIsSumOfBalances ==
    total_supply = SumOver([a \in DOMAIN accounts |-> accounts[a].balance],
                           DOMAIN accounts)

DividendIncreaseUnscaled == <<0, fee_pool \div total_supply>>

DividendIncrease == ScaledQuotient(fee_pool, total_supply)

distribute_fees ==
    IF total_supply = 0 \/ fee_pool = 0
    THEN /\ last' = Call("distribute_fees", NoAddr, NoAddr, 0, RetVal(0))
         /\ UNCHANGED <<checkpoint_vars, now, accounts, fee_pool, dividend_per_token, total_supply,
                        last_dividend_points, unclaimed_dividends, hist>>
    ELSE /\ dividend_per_token' = FxAdd(dividend_per_token, DividendIncrease)
         /\ fee_pool' = 0
         /\ last' = Call("distribute_fees", NoAddr, NoAddr, 0, RetVal(fee_pool))
         /\ hist' = [hist EXCEPT !.distributed = @ + fee_pool, !.claimed_since = {},
                                  !.balanced = @ /\ SupplyIsSumOfBalances]
         /\ UNCHANGED <<checkpoint_vars, now, accounts, total_supply,
                        last_dividend_points, unclaimed_dividends>>

-----------------------------------------------------------------------------
(* Runtime::update_account_dividends *)

DividendsApply(address) ==
    ValidAddress[address] /\ address \in DOMAIN accounts

(* new_dividends = (balance * point_diff) / DIVIDEND_PRECISION *)
NewDividends(address) ==
    IF DividendsApply(address)
    THEN ScaledProduct(accounts[address].balance,
                       FxSub(dividend_per_token,
                             Get(last_dividend_points, address, FxZero)))
    ELSE 0

DividendPointsStale(address) == last_dividend_points

DividendPoints(address) ==
    IF DividendsApply(address)
    THEN (address :> dividend_per_token) @@ last_dividend_points
    ELSE last_dividend_points

DividendUnclaimed(address) ==
    IF NewDividends(address) > 0
    THEN (address :> (Get(unclaimed_dividends, address, 0) + NewDividends(address)))
         @@ unclaimed_dividends
    ELSE unclaimed_dividends

update_account_dividends(address) ==
    /\ last_dividend_points' = DividendPoints(address)
    /\ unclaimed_dividends' = DividendUnclaimed(address)
    /\ last' = Call("update_account_dividends", address, NoAddr, 0,
                    RetVal(NewDividends(address)))
    /\ UNCHANGED <<checkpoint_vars, now, accounts, fee_pool, dividend_per_token, total_supply, hist>>

(* Runtime::get_unclaimed_dividends *)
get_unclaimed_dividends(address) ==
    IF ~ValidAddress[address]
    THEN /\ last' = Call("get_unclaimed_dividends", address, NoAddr, 0, RetVal(0))
         /\ UNCHANGED <<checkpoint_vars, now, accounts, fee_pool, dividend_per_token, total_supply,
                        last_dividend_points, unclaimed_dividends, hist>>
    ELSE /\ last_dividend_points' = DividendPoints(address)
         /\ unclaimed_dividends' = DividendUnclaimed(address)
         /\ last' = Call("get_unclaimed_dividends", address, NoAddr, 0,
                         RetVal(Get(DividendUnclaimed(address), address, 0)))
         /\ UNCHANGED <<checkpoint_vars, now, accounts, fee_pool, dividend_per_token, total_supply, hist>>

-----------------------------------------------------------------------------
(* Runtime::claim_dividends *)

ToClaim(address) == Get(DividendUnclaimed(address), address, 0)

ClaimUnclaimedKept(address) == DividendUnclaimed(address)

ClaimUnclaimed(address) ==
    IF ToClaim(address) = 0
    THEN DividendUnclaimed(address)
    ELSE (address :> 0) @@ DividendUnclaimed(address)

ClaimAccounts(address) ==
    IF ToClaim(address) # 0 /\ address \in DOMAIN accounts
    THEN [accounts EXCEPT ![address].balance = @ + ToClaim(address)]
    ELSE accounts

claim_dividends(address) ==
    IF ~ValidAddress[address]
    THEN /\ last' = Call("claim_dividends", address, NoAddr, 0, RetVal(0))
         /\ UNCHANGED <<checkpoint_vars, now, accounts, fee_pool, dividend_per_token, total_supply,
                        last_dividend_points, unclaimed_dividends, hist>>
    ELSE /\ last_dividend_points' = DividendPoints(address)
         /\ unclaimed_dividends' = ClaimUnclaimed(address)
         /\ accounts' = ClaimAccounts(address)
         /\ last' = Call("claim_dividends", address, NoAddr, 0, RetVal(ToClaim(address)))
         /\ hist' = [hist EXCEPT !.claimed = HistAdd(@, address, ToClaim(address)),
                                  !.claimed_since = @ \cup {address}]
         /\ UNCHANGED <<checkpoint_vars, now, fee_pool, dividend_per_token, total_supply>>

-----------------------------------------------------------------------------
(* Runtime::update_total_supply *)

(* A plausible slip: the subtraction does not saturate *)
NewTotalSupplyUnsaturated(amount, is_addition) ==
    IF is_addition THEN total_supply + amount ELSE total_supply - amount

(* *total_supply += amount, or total_supply.saturating_sub(amount) *)
NewTotalSupply(amount, is_addition) ==
    IF is_addition
    THEN total_supply + amount
    ELSE IF amount > total_supply THEN 0 ELSE total_supply - amount

update_total_supply(amount, is_addition) ==
    /\ is_addition => total_supply + amount <= MaxSupply
    /\ total_supply' = NewTotalSupply(amount, is_addition)
    /\ last' = Call("update_total_supply", NoAddr, NoAddr, amount, RetBool(is_addition))
    /\ UNCHANGED <<checkpoint_vars, now, accounts, fee_pool, dividend_per_token,
                   last_dividend_points, unclaimed_dividends, hist>>

-----------------------------------------------------------------------------
(* Runtime::transfer_with_fee *)

(* A plausible slip: the fee rounded up instead of truncated *)
TransferFeeRoundedUp(amount) == (amount + 99) \div 100

TransferFee(amount) == amount \div 100

(* A plausible slip: the recipient is credited the whole amount *)
TransferAmountWhole(amount) == amount

TransferAmount(amount) == amount - TransferFee(amount)

SenderNotFoundMsg == "Sender account not found"

InsufficientMsg == "Insufficient balance for transfer"

TransferResult(from_address, to_address, amount) ==
    IF ~ValidAddress[from_address] \/ ~ValidAddress[to_address]
    THEN RetErr("InvalidAddress", "")
    ELSE IF from_address \notin DOMAIN accounts
    THEN RetErr("Other", SenderNotFoundMsg)
    ELSE IF accounts[from_address].balance < amount
    THEN RetErr("Other", InsufficientMsg)
    ELSE RetOk

(* sender.balance -= amount *)
Debited(from_address, amount) ==
    [accounts EXCEPT ![from_address].balance = @ - amount]

(* recipient.balance += transfer_amount, or a new unverified account *)
Credited(accs, to_address, amount) ==
    IF to_address \in DOMAIN accs
    THEN [accs EXCEPT ![to_address].balance = @ + TransferAmount(amount)]
    ELSE (to_address :> [balance |-> TransferAmount(amount), verified |-> FALSE,
                         last_ubi_claim |-> now]) @@ accs

(* A plausible slip: the recipient's entry is made before the balance check *)
TransferAccountsEarlyInsert(from_address, to_address, amount) ==
    IF TransferResult(from_address, to_address, amount).kind = "Ok"
    THEN Credited(Debited(from_address, amount), to_address, amount)
    ELSE IF TransferResult(from_address, to_address, amount).msg = InsufficientMsg
    THEN Credited(accounts, to_address, 0)
    ELSE accounts

TransferAccounts(from_address, to_address, amount) ==
    IF TransferResult(from_address, to_address, amount).kind = "Ok"
    THEN Credited(Debited(from_address, amount), to_address, amount)
    ELSE accounts

transfer_with_fee(from_address, to_address, amount) ==
    /\ last' = Call("transfer_with_fee", from_address, to_address, amount,
                    TransferResult(from_address, to_address, amount))
    /\ accounts' = TransferAccounts(from_address, to_address, amount)
    /\ fee_pool' = IF TransferResult(from_address, to_address, amount).kind = "Ok"
                   THEN fee_pool + TransferFee(amount)
                   ELSE fee_pool
    /\ UNCHANGED <<checkpoint_vars, now, dividend_per_token, total_supply,
                   last_dividend_points, unclaimed_dividends, hist>>

(* Runtime::get_fee_pool *)
get_fee_pool ==
    /\ last' = Call("get_fee_pool", NoAddr, NoAddr, 0, RetVal(fee_pool))
    /\ UNCHANGED <<checkpoint_vars, now, accounts, fee_pool, dividend_per_token, total_supply,
                   last_dividend_points, unclaimed_dividends, hist>>

-----------------------------------------------------------------------------
(* Runtime::create_checkpoint *)

(* SystemTime::now().duration_since(UNIX_EPOCH).unwrap().as_secs() *)
NowSecs == now \div TicksPerSec

(* The orders in which a HashMap with the keys S can be iterated *)
Orders(S) ==
    {f \in [1..Cardinality(S) -> S] : \A i, j \in 1..Cardinality(S) : f[i] = f[j] => i = j}

RECURSIVE TreeWith(_, _, _)
(* state_tree.update_account for every account of accs, in the given order *)
TreeWith(tree, accs, order) ==
    IF Len(order) = 0 THEN tree
    ELSE TreeWith(TreeUpdate(tree, order[1],
                             AccountState(accs[order[1]].balance, NowSecs, 0)),
                  accs, Tail(order))

(* state_tree.root_hash().unwrap_or([0; 32]) *)
CheckpointRoot(tree) == IF root_hash(tree) = None THEN ZeroHash ELSE root_hash(tree)[1]

(* The five header fields written to a checkpoint file *)
HeaderFields(timestamp, root, account_count, supply, pool) ==
    <<timestamp, root, account_count, supply, pool>>

RECURSIVE AccountFields(_, _)
(* The five fields written for each account: address length, address, *)
(* balance, verified as a byte, last UBI claim in whole seconds        *)
AccountFields(accs, order) ==
    IF Len(order) = 0 THEN <<>>
    ELSE <<StrLen(order[1]), order[1], accs[order[1]].balance,
           IF accs[order[1]].verified THEN 1 ELSE 0,
           accs[order[1]].last_ubi_claim \div TicksPerSec>>
         \o AccountFields(accs, Tail(order))

CheckpointFields(root, order) ==
    HeaderFields(NowSecs, root, Cardinality(DOMAIN accounts), total_supply, fee_pool)
    \o AccountFields(accounts, order)

(* What the file system does to a create_checkpoint call: nothing fails, *)
(* or create_dir_all, File::create or a write_all fails, the last after  *)
(* some fields have been written                                         *)
Io(at, written) == [at |-> at, written |-> written]

WrittenBeforeFailure == {2, 5}

IoOutcomes ==
    {Io("none", 0), Io("create_dir_all", 0), Io("File::create", 0)}
    \cup {Io("write_all", n) : n \in WrittenBeforeFailure}

(* The first of the mutexes ms that cannot be taken: a lock() on a mutex  *)
(* held for ever never returns, unwrap() on a poisoned one panics         *)
LockFailure(ms) ==
    IF \E i \in 1..Len(ms) : mutex[ms[i]] # "free"
    THEN LET first == CHOOSE i \in 1..Len(ms) :
                        /\ mutex[ms[i]] # "free"
                        /\ \A j \in 1..(i - 1) : mutex[ms[j]] = "free"
         IN  IF mutex[ms[first]] = "held" THEN "Blocked" ELSE "Panic"
    ELSE "none"

(* Runtime::prune_checkpoints, called by create_checkpoint while it holds  *)
(* the guards of accounts, state_tree and checkpoints: its lock() on       *)
(* checkpoints is a second lock by the same thread, which std::sync::Mutex *)
(* answers by never returning: the thread deadlocks or it panics           *)
RelockOutcomes == {"Deadlock", "Panic"}

prune_checkpoints(outcome) ==
    [m \in DOMAIN mutex |->
        IF m \in {"accounts", "state_tree", "checkpoints"}
        THEN IF outcome = "Deadlock" THEN "held" ELSE "poisoned"
        ELSE mutex[m]]

NewCheckpoint(root) ==
    StateCheckpoint(NowSecs, root, Cardinality(DOMAIN accounts), total_supply, fee_pool,
                    NowSecs)

PushedEverything(c, io) == Append(checkpoints, c)

(* The checkpoint list after the writes: the record is pushed when all *)
(* of them succeeded                                                   *)
Pushed(c, io) == IF io.at = "none" THEN Append(checkpoints, c) ELSE checkpoints

(* The file after File::create and the writes that succeeded *)
WrittenFile(fields, io) ==
    IF io.at = "write_all" THEN SubSeq(fields, 1, io.written) ELSE fields

Snapshot(c) ==
    [checkpoint |-> c, accounts |-> accounts, fee_pool |-> fee_pool,
     total_supply |-> total_supply, restarts |-> hist.restarts]

create_checkpoint(force, io) ==
    /\ UNCHANGED <<now, accounts, fee_pool, dividend_per_token, total_supply,
                   last_dividend_points, unclaimed_dividends, max_checkpoints,
                   threads>>
    /\ IF io.at = "create_dir_all"
       THEN /\ DOMAIN files = {}
            /\ last' = CheckpointCall("create_checkpoint", force, NoCheckpoint,
                                      RetErr("Io", "create_dir_all"))
            /\ UNCHANGED <<state_tree, checkpoints, files, mutex, hist>>
       ELSE IF LockFailure(<<"accounts", "state_tree", "checkpoints">>) # "none"
       THEN /\ last' = CheckpointCall("create_checkpoint", force, NoCheckpoint,
                   NoReturn(LockFailure(<<"accounts", "state_tree", "checkpoints">>)))
            /\ UNCHANGED <<state_tree, checkpoints, files, mutex, hist>>
       ELSE \E order \in Orders(DOMAIN accounts) :
            LET tree == TreeWith(state_tree, accounts, order)
                root == CheckpointRoot(tree)
                fields == CheckpointFields(root, order)
                c == NewCheckpoint(root)
            IN  /\ state_tree' = tree
                /\ IF /\ ~force
                      /\ Len(checkpoints) > 0
                      /\ checkpoints[Len(checkpoints)].root_hash = root
                   THEN /\ last' = CheckpointCall("create_checkpoint", force, NoCheckpoint,
                                      RetCheckpoint(checkpoints[Len(checkpoints)]))
                        /\ UNCHANGED <<checkpoints, files, mutex, hist>>
                   ELSE IF io.at = "File::create"
                   THEN /\ last' = CheckpointCall("create_checkpoint", force, NoCheckpoint,
                                                  RetErr("Io", "File::create"))
                        /\ UNCHANGED <<checkpoints, files, mutex, hist>>
                   ELSE /\ io.at = "write_all" => io.written < Len(fields)
                        /\ files' = (NowSecs :> WrittenFile(fields, io)) @@ files
                        /\ checkpoints' = Pushed(c, io)
                        /\ IF io.at = "write_all"
                           THEN /\ last' = CheckpointCall("create_checkpoint", force,
                                               NoCheckpoint, RetErr("Io", "write_all"))
                                /\ UNCHANGED <<mutex, hist>>
                           ELSE \E outcome \in RelockOutcomes :
                                /\ mutex' = prune_checkpoints(outcome)
                                /\ last' = CheckpointCall("create_checkpoint", force,
                                               NoCheckpoint, NoReturn(outcome))
                                /\ hist' = [hist EXCEPT
                                              !.snaps = Append(@, Snapshot(c))]

-----------------------------------------------------------------------------
(* Runtime::load_checkpoint *)

(* File::open and the reads and comparisons of the header, which come *)
(* before the first write to the live state                           *)
HeaderMatchesAlways(c, file) == TRUE

HeaderMatches(c, file) ==
    /\ Len(file) >= 1 => file[1] = c.timestamp
    /\ Len(file) >= 2 => file[2] = c.root_hash

HeaderError(c) ==
    IF c.file_path \notin DOMAIN files THEN "NotFound"
    ELSE IF ~HeaderMatches(c, files[c.file_path]) THEN "InvalidData"
    ELSE IF Len(files[c.file_path]) < 5 THEN "UnexpectedEof"
    ELSE "none"

RECURSIVE ReadAccounts(_, _, _, _)
(* The loop over account_count records: each is five fields; the first *)
(* read past the end of the file ends the loop with an error           *)
ReadAccounts(file, pos, account_count, accs) ==
    IF account_count = 0 THEN [accounts |-> accs, complete |-> TRUE]
    ELSE IF Len(file) < pos + 4 THEN [accounts |-> accs, complete |-> FALSE]
    ELSE ReadAccounts(file, pos + 5, account_count - 1,
                      (file[pos + 1] :> [balance |-> file[pos + 2],
                                         verified |-> file[pos + 3] # 0,
                                         last_ubi_claim |-> file[pos + 4] * TicksPerSec])
                      @@ accs)

LoadedAccounts(c) ==
    ReadAccounts(files[c.file_path], 6, files[c.file_path][3], [a \in {} |-> NoAccount])

UnclaimedKept == unclaimed_dividends

(* unclaimed_dividends after its clear() *)
UnclaimedCleared == [a \in {} |-> 0]

load_checkpoint(c) ==
    /\ UNCHANGED <<now, checkpoints, max_checkpoints, files, mutex, hist, threads>>
    /\ IF HeaderError(c) # "none"
       THEN /\ last' = CheckpointCall("load_checkpoint", FALSE, c,
                                      RetErr(HeaderError(c), "header"))
            /\ UNCHANGED <<accounts, fee_pool, dividend_per_token, total_supply,
                           last_dividend_points, unclaimed_dividends, state_tree>>
       ELSE IF LockFailure(<<"accounts">>) # "none"
       THEN /\ last' = CheckpointCall("load_checkpoint", FALSE, c,
                                      NoReturn(LockFailure(<<"accounts">>)))
            /\ UNCHANGED <<accounts, fee_pool, dividend_per_token, total_supply,
                           last_dividend_points, unclaimed_dividends, state_tree>>
       ELSE /\ accounts' = LoadedAccounts(c).accounts
            /\ total_supply' = files[c.file_path][4]
            /\ fee_pool' = files[c.file_path][5]
            /\ dividend_per_token' = FxZero
            /\ last_dividend_points' = [a \in {} |-> FxZero]
            /\ unclaimed_dividends' = UnclaimedCleared
            /\ IF ~LoadedAccounts(c).complete
               THEN /\ last' = CheckpointCall("load_checkpoint", FALSE, c,
                                              RetErr("UnexpectedEof", "accounts"))
                    /\ UNCHANGED state_tree
               ELSE IF LockFailure(<<"state_tree">>) # "none"
               THEN /\ last' = CheckpointCall("load_checkpoint", FALSE, c,
                                              NoReturn(LockFailure(<<"state_tree">>)))
                    /\ UNCHANGED state_tree
               ELSE \E order \in Orders(DOMAIN LoadedAccounts(c).accounts) :
                    /\ state_tree' = TreeWith(NewTree, LoadedAccounts(c).accounts, order)
                    /\ last' = CheckpointCall("load_checkpoint", FALSE, c, RetOk)

(* Runtime::latest_checkpoint *)
latest_checkpoint ==
    /\ last' = CheckpointCall("latest_checkpoint", FALSE, NoCheckpoint,
                  IF LockFailure(<<"checkpoints">>) # "none"
                  THEN NoReturn(LockFailure(<<"checkpoints">>))
                  ELSE IF Len(checkpoints) = 0 THEN RetNoCheckpoint
                  ELSE RetCheckpoint(checkpoints[Len(checkpoints)]))
    /\ UNCHANGED <<now, accounts, fee_pool, dividend_per_token, total_supply,
                   last_dividend_points, unclaimed_dividends, hist, checkpoint_vars>>

(* The process ends and a new one starts with Runtime::new(): the state in *)
(* memory is that of Runtime::default, the checkpoint files are still there *)
Restart ==
    /\ hist.restarts < MaxRestarts
    /\ accounts' = [a \in {} |-> NoAccount]
    /\ fee_pool' = 0
    /\ dividend_per_token' = FxZero
    /\ total_supply' = 0
    /\ last_dividend_points' = [a \in {} |-> FxZero]
    /\ unclaimed_dividends' = [a \in {} |-> 0]
    /\ state_tree' = NewTree
    /\ checkpoints' = <<>>
    /\ mutex' = AllFree
    /\ last' = Call("new", NoAddr, NoAddr, 0, RetOk)
    /\ hist' = [hist EXCEPT !.restarts = @ + 1]
    /\ UNCHANGED <<now, max_checkpoints, files, threads>>

-----------------------------------------------------------------------------
(* Any caller may invoke any public operation, one call at a time *)

(* The account ledger: accounts, UBI streaming and transfers *)
Ledger(T, S, A) ==
    \/ Tick(T)
    \/ \E address \in S : create_account(address)
    \/ \E address \in ValidStrings : verify_account(address)
    \/ \E address \in ValidStrings : update_ubi_balance(address)
    \/ \E address \in ValidStrings : get_balance(address)
    \/ \E from_address \in ValidStrings \cup {BAD_TEXT},
          to_address \in ValidStrings \cup {BAD_TEXT}, amount \in A :
          transfer_with_fee(from_address, to_address, amount)

Next == Ledger(Times, Strings, Amounts)

Spec == Init /\ [][Next]_vars

NextUbi == Ledger(FineTimes, ValidStrings, SmallAmounts)

SpecUbi == Init /\ [][NextUbi]_vars

(* The ledger with its read-only queries *)
QueryTimes == {0, TicksPerHour}

ZeroAmounts == {0}

NextQuery ==
    \/ Ledger(QueryTimes, ValidStrings, ZeroAmounts)
    \/ \E address \in ValidStrings \cup {BAD_TEXT} : is_account_verified(address)

SpecQuery == Init /\ [][NextQuery]_vars

-----------------------------------------------------------------------------
(* The dividend engine on ledgers that already hold balances and fees, as   *)
(* tests::test_fee_distribution sets them up: total_supply is the sum of    *)
(* the balances.                                                            *)

Holdings ==
    { (ADDR_1 :> 500) @@ (ADDR_2 :> 300) @@ (ADDR_3 :> 200),
      (ADDR_1 :> 1) @@ (ADDR_2 :> 1) @@ (ADDR_3 :> 1),
      (ADDR_1 :> 150) @@ (ADDR_2 :> 7),
      (ADDR_1 :> 0) @@ (ADDR_2 :> 0),
      (ADDR_1 :> 2000000001) }

FeePools == {0, 2, 100}

SmallHoldings ==
    { (ADDR_1 :> 300) @@ (ADDR_2 :> 100),
      (ADDR_1 :> 0) @@ (ADDR_2 :> 0) }

SmallFeePools == {0, 2}

MaxFees == 3

DividendAmounts == {200}

InitHoldings(holdings, pools) ==
    /\ now = 0
    /\ \E h \in holdings :
         /\ accounts = [a \in DOMAIN h |->
                          [balance |-> h[a], verified |-> TRUE, last_ubi_claim |-> 0]]
         /\ total_supply = SumOver(h, DOMAIN h)
    /\ fee_pool \in pools
    /\ dividend_per_token = FxZero
    /\ last_dividend_points = [a \in {} |-> FxZero]
    /\ unclaimed_dividends = [a \in {} |-> 0]
    /\ last = Call("new", NoAddr, NoAddr, 0, RetOk)
    /\ hist = HistInit
    /\ state_tree = NewTree
    /\ checkpoints = <<>>
    /\ max_checkpoints = DefaultMaxCheckpoints
    /\ files = NoFiles
    /\ mutex = AllFree

Dividends ==
    \/ distribute_fees
    \/ \E address \in DividendStrings \cup {BAD_TEXT} : update_account_dividends(address)
    \/ \E address \in DividendStrings \cup {BAD_TEXT} : claim_dividends(address)

(* One distribution and the claims that follow it *)
InitClaims == InitHoldings(Holdings, FeePools) /\ threads = NoThreads

NextClaims ==
    \/ Dividends
    \/ \E address \in DividendStrings \cup {BAD_TEXT} : get_unclaimed_dividends(address)

SpecClaims == InitClaims /\ [][NextClaims]_vars

(* Distributions and claims with transfers in between, until MaxFees tokens *)
(* of fees have been collected                                             *)
InitDividend == InitHoldings(SmallHoldings, SmallFeePools) /\ threads = NoThreads

NextDividend ==
    \/ Dividends
    \/ \E from_address \in DividendStrings, to_address \in DividendStrings,
          amount \in DividendAmounts :
          /\ hist.distributed + fee_pool < MaxFees
          /\ transfer_with_fee(from_address, to_address, amount)

SpecDividend == InitDividend /\ [][NextDividend]_vars

-----------------------------------------------------------------------------
(* Checkpoints of small ledgers *)

(* Clock readings: a second and the next *)
CheckpointTimes == {0, TicksPerSec}

(* StateCheckpoint values a caller can pass: StateCheckpoint has public   *)
(* fields, so any value can be built; these are the records made so far,  *)
(* the records that fit the files, and records that differ from them in   *)
(* the timestamp, in the root hash or in the path                         *)
FileCheckpoint(path) ==
    LET file == files[path]
    IN  StateCheckpoint(IF Len(file) >= 1 THEN file[1] ELSE path,
                        IF Len(file) >= 2 THEN file[2] ELSE ZeroHash,
                        IF Len(file) >= 3 THEN file[3] ELSE 0,
                        IF Len(file) >= 4 THEN file[4] ELSE 0,
                        IF Len(file) >= 5 THEN file[5] ELSE 0,
                        path)

KnownCheckpoints ==
    {FileCheckpoint(path) : path \in DOMAIN files}
    \cup {hist.snaps[i].checkpoint : i \in 1..Len(hist.snaps)}

CheckpointArgs ==
    KnownCheckpoints
    \cup {[c EXCEPT !.timestamp = @ + 1] : c \in KnownCheckpoints}
    \cup {[c EXCEPT !.root_hash = ZeroHash] : c \in KnownCheckpoints}
    \cup {StateCheckpoint(NowSecs, ZeroHash, 0, 0, 0, NowSecs + 1)}

(* The ledger calls that make accounts differ in balance-independent ways: *)
(* a verified account, an unverified recipient, a later verification.      *)
(* Each locks accounts first.                                              *)
SmallLedger(T) ==
    \/ Tick(T)
    \/ LockFailure(<<"accounts">>) = "none" /\ create_account(ADDR_1)
    \/ LockFailure(<<"accounts">>) = "none" /\ verify_account(ADDR_2)
    \/ LockFailure(<<"accounts">>) = "none" /\ transfer_with_fee(ADDR_1, ADDR_2, 0)

(* One process: checkpoints are made while the file system may fail *)
NextCheckpoint ==
    \/ SmallLedger(CheckpointTimes)
    \/ \E force \in BOOLEAN, io \in IoOutcomes : create_checkpoint(force, io)
    \/ \E c \in CheckpointArgs : load_checkpoint(c)
    \/ latest_checkpoint

SpecCheckpoint == Init /\ [][NextCheckpoint]_vars

(* Processes that follow one another: checkpoints written by one are *)
(* loaded by a later one                                             *)
NextRestore ==
    \/ SmallLedger(CheckpointTimes)
    \/ create_checkpoint(TRUE, Io("none", 0))
    \/ \E c \in KnownCheckpoints : load_checkpoint(c)
    \/ Restart

SpecRestore == Init /\ [][NextRestore]_vars

-----------------------------------------------------------------------------
(* Claims about transfer_with_fee and create_account, checked under Spec *)

BalanceOf(accs, address) == IF address \in DOMAIN accs THEN accs[address].balance ELSE 0

TransferReturnedOk == last'.op = "transfer_with_fee" /\ last'.ret.kind = "Ok"

(* C1 as stated: every transfer_with_fee that returns Ok, for any valid *)
(* addresses, takes amount from the sender, gives amount - amount/100 to *)
(* the recipient (0 before if it did not exist) and adds amount/100 to   *)
(* fee_pool.                                                             *)
C1_TransferEffect_AnyAddresses ==
    [][TransferReturnedOk =>
        /\ BalanceOf(accounts', last'.address)
             = BalanceOf(accounts, last'.address) - last'.amount
        /\ BalanceOf(accounts', last'.to_address)
             = BalanceOf(accounts, last'.to_address)
               + (last'.amount - last'.amount \div 100)
        /\ fee_pool' = fee_pool + last'.amount \div 100]_vars

(* C1 amended: the three equations hold when sender and recipient are       *)
(* different addresses; a transfer from an address to itself lowers that    *)
(* one balance by the fee amount/100 and adds amount/100 to fee_pool.       *)
C1_TransferEffect ==
    [][TransferReturnedOk =>
        /\ fee_pool' = fee_pool + last'.amount \div 100
        /\ last'.address # last'.to_address =>
             /\ BalanceOf(accounts', last'.address)
                  = BalanceOf(accounts, last'.address) - last'.amount
             /\ BalanceOf(accounts', last'.to_address)
                  = BalanceOf(accounts, last'.to_address)
                    + (last'.amount - last'.amount \div 100)
        /\ last'.address = last'.to_address =>
             BalanceOf(accounts', last'.address)
               = BalanceOf(accounts, last'.address) - last'.amount \div 100]_vars

(* a transfer of 150 has just created its recipient with 149 and put 1 in the pool *)
C1_Witness ==
    /\ last.op = "transfer_with_fee" /\ last.ret.kind = "Ok"
    /\ last.amount = 150 /\ last.address # last.to_address
    /\ ~accounts[last.to_address].verified
    /\ accounts[last.to_address].balance = 149
    /\ fee_pool >= 1

(* C2: a transfer_with_fee that returns an error leaves every account, the *)
(* set of accounts and fee_pool as they were.                              *)
C2_FailedTransferChangesNothing ==
    [][(last'.op = "transfer_with_fee" /\ last'.ret.kind # "Ok") =>
        /\ accounts' = accounts
        /\ fee_pool' = fee_pool
        /\ UNCHANGED <<dividend_per_token, total_supply,
                       last_dividend_points, unclaimed_dividends>>]_vars

(* a transfer to an address without an account has just failed for lack of balance *)
C2_Witness ==
    /\ last.op = "transfer_with_fee" /\ last.ret.kind # "Ok"
    /\ last.address \in DOMAIN accounts
    /\ accounts[last.address].balance < last.amount
    /\ last.to_address \notin DOMAIN accounts
    /\ ValidAddress[last.to_address]

(* The error kind the interface names for a call, from the state before it *)
NamedTransferKind(from_address, to_address, amount) ==
    IF ~ValidAddress[from_address] \/ ~ValidAddress[to_address] THEN "InvalidAddress"
    ELSE IF from_address \notin DOMAIN accounts THEN "SenderNotFound"
    ELSE IF accounts[from_address].balance < amount THEN "InsufficientBalance"
    ELSE "Ok"

(* C3: transfer_with_fee reports InvalidAddress, SenderNotFound and          *)
(* InsufficientBalance as distinct error kinds, and Ok otherwise.            *)
C3_TypedTransferErrors ==
    [][last'.op = "transfer_with_fee" =>
        last'.ret.kind
          = NamedTransferKind(last'.address, last'.to_address, last'.amount)]_vars

(* The characters of a run-length encoded string, one by one *)
RECURSIVE Expand(_)
Expand(s) ==
    IF s = <<>> THEN <<>>
    ELSE [i \in 1..s[1][2] |-> s[1][1]] \o Expand(Tail(s))

HexCharacters ==
    {"0","1","2","3","4","5","6","7","8","9",
     "a","b","c","d","e","f","A","B","C","D","E","F"}

(* 0x followed by 40 hex characters *)
WellFormedAddress(s) ==
    LET chars == Expand(s)
    IN  /\ Len(chars) = 42
        /\ SubSeq(chars, 1, 2) = <<"0", "x">>
        /\ \A i \in 3..42 : chars[i] \in HexCharacters

-----------------------------------------------------------------------------
(* Claims about UBI streaming, checked under SpecUbi *)

(* Whole hours between an account's last claim time and now *)
WholeHoursSince(t) == (now - t) \div TicksPerHour

(* C9: update_ubi_balance on a verified existing account with                *)
(* h = floor((now - last_claim_time) / 1 hour) >= 1 adds h * RATE to the     *)
(* balance, returns that amount and advances last_claim_time by exactly h    *)
(* hours, so that less than an hour is left and a second call grants 0.      *)
C9_UbiGrantAdvancesWholeHours ==
    [][(/\ last'.op = "update_ubi_balance"
        /\ last'.address \in DOMAIN accounts
        /\ accounts[last'.address].verified
        /\ WholeHoursSince(accounts[last'.address].last_ubi_claim) >= 1) =>
        LET before == accounts[last'.address]
            after == accounts'[last'.address]
            h == WholeHoursSince(before.last_ubi_claim)
        IN  /\ after.balance = before.balance + h * 1
            /\ last'.ret.val = h * 1
            /\ after.last_ubi_claim = before.last_ubi_claim + h * TicksPerHour
            /\ now - after.last_ubi_claim < TicksPerHour]_vars

(* C10: for an account made by create_account at time t0, after any polls by *)
(* update_ubi_balance and get_balance, the last of them at time t, the UBI   *)
(* granted in total is floor((t - t0) / 1 hour) * RATE.                      *)
C10_UbiIndependentOfPolling ==
    (/\ last.op \in {"update_ubi_balance", "get_balance"}
     /\ last.address \in DOMAIN hist.created_at) =>
        Get(hist.ubi, last.address, 0)
          = ((now - hist.created_at[last.address]) \div TicksPerHour) * 1

-----------------------------------------------------------------------------
(* Claims about one distribution and its claims, checked under SpecClaims *)

ClaimedBy(a) == Get(hist.claimed, a, 0)

(* The balance a held when distribute_fees ran: nothing but claims has *)
(* changed it since                                                    *)
HeldAtDistribution(a) == accounts[a].balance - ClaimedBy(a)

TotalClaimed == SumOver([a \in DOMAIN accounts |-> ClaimedBy(a)], DOMAIN accounts)

(* |c - f * b / t| <= 1, from the quotient and remainder of f * b by t *)
WithinOneOfShare(c, f, b, t) ==
    LET s == MulDivQR(f, b, t)
    IN  /\ c - 1 <= s[1]
        /\ s[1] < c + 1 \/ (s[1] = c + 1 /\ s[2] = 0)

(* C5: after one distribute_fees() of a fee pool F over k accounts whose   *)
(* balances sum to total_supply T, followed by claim_dividends for each    *)
(* account, the claims sum to at least F - k and at most F and each claim  *)
(* is within 1 of F * b_i / T.                                             *)
C5_DividendConservation ==
    (hist.distributed > 0 /\ hist.claimed_since = DOMAIN accounts) =>
        /\ TotalClaimed >= hist.distributed - Cardinality(DOMAIN accounts)
        /\ TotalClaimed <= hist.distributed
        /\ \A a \in DOMAIN accounts :
              WithinOneOfShare(ClaimedBy(a), hist.distributed,
                               HeldAtDistribution(a), total_supply)

(* C8: claim_dividends on an existing account brings its dividends up to   *)
(* date, adds exactly the returned amount to its balance and leaves its    *)
(* unclaimed dividends at 0, so a claim repeated at once returns 0 and     *)
(* leaves the balance alone; for an invalid or unknown address it returns  *)
(* 0 and creates no account.                                               *)
C8_ClaimDividends ==
    [][last'.op = "claim_dividends" =>
        LET a == last'.address
            r == last'.ret.val
        IN  IF ValidAddress[a] /\ a \in DOMAIN accounts
            THEN /\ r = Get(unclaimed_dividends, a, 0) + NewDividends(a)
                 /\ a \in DOMAIN last_dividend_points'
                 /\ last_dividend_points'[a] = dividend_per_token
                 /\ accounts'[a].balance = accounts[a].balance + r
                 /\ Get(unclaimed_dividends', a, 0) = 0
                 /\ (last.op = "claim_dividends" /\ last.address = a) =>
                       (r = 0 /\ accounts'[a].balance = accounts[a].balance)
                 /\ DOMAIN accounts' = DOMAIN accounts
            ELSE /\ r = 0
                 /\ accounts' = accounts
                 /\ unclaimed_dividends' = unclaimed_dividends]_vars

(* a claim has just paid a share of a distribution into a balance *)
C8_Witness ==
    /\ last.op = "claim_dividends" /\ last.ret.val > 0
    /\ hist.distributed > 0
    /\ accounts[last.address].balance > last.ret.val
    /\ Get(unclaimed_dividends, last.address, 0) = 0

-----------------------------------------------------------------------------
(* Claims about distributions between transfers, checked under SpecDividend *)

(* x = floor(n * DIVIDEND_PRECISION / d) for a two-digit x, stated as      *)
(* x * d <= n * DIVIDEND_PRECISION < x * d + d                             *)
IsScaledFloor(x, n, d) ==
    LET r == n % d
        p == MulDivQR(x[2], d, DIVIDEND_PRECISION)
        slack == d - 1 - (DIVIDEND_PRECISION - p[2])
    IN  /\ x[1] = n \div d
        /\ 0 <= x[2] /\ x[2] < DIVIDEND_PRECISION
        /\ \/ p[1] = r /\ p[2] = 0
           \/ /\ p[1] < r
              /\ slack >= 0
              /\ r - p[1] - 1 <= slack \div DIVIDEND_PRECISION

(* C6 as stated: whenever a step changes an account's balance, what was    *)
(* owed on the old balance is nothing or is folded into the account's      *)
(* dividends by that step.                                                 *)
C6_EntitlementFoldedBeforeBalanceChange ==
    [][\A a \in DOMAIN accounts :
          accounts'[a].balance # accounts[a].balance =>
              \/ NewDividends(a) = 0
              \/ /\ a \in DOMAIN last_dividend_points'
                 /\ last_dividend_points'[a] = dividend_per_token
                 /\ Get(unclaimed_dividends', a, 0) + Get(hist'.claimed, a, 0)
                      = Get(unclaimed_dividends, a, 0) + Get(hist.claimed, a, 0)
                        + NewDividends(a)]_vars

(* C7: distribute_fees returns 0 and changes nothing when total_supply or  *)
(* fee_pool is 0; otherwise it adds floor(fee_pool * 10^9 / total_supply)  *)
(* to dividend_per_token, empties fee_pool, returns the old fee_pool and   *)
(* changes no balance.                                                     *)
C7_DistributeFees ==
    [][last'.op = "distribute_fees" =>
        IF total_supply = 0 \/ fee_pool = 0
        THEN /\ last'.ret.val = 0
             /\ UNCHANGED <<accounts, fee_pool, dividend_per_token, total_supply,
                            last_dividend_points, unclaimed_dividends>>
        ELSE /\ FxLeq(dividend_per_token, dividend_per_token')
             /\ IsScaledFloor(FxSub(dividend_per_token', dividend_per_token),
                              fee_pool, total_supply)
             /\ fee_pool' = 0
             /\ last'.ret.val = fee_pool
             /\ accounts' = accounts]_vars

(* a second distribution has added to a dividend_per_token that was not 0 *)
C7_Witness ==
    /\ last.op = "distribute_fees" /\ last.ret.val > 0
    /\ hist.distributed > last.ret.val
    /\ fee_pool = 0
    /\ dividend_per_token # FxZero

-----------------------------------------------------------------------------
(* Claims about the read-only queries, checked under SpecQuery *)

QueryOfUnknown ==
    /\ last'.op \in {"get_balance", "is_account_verified"}
    /\ last'.address \notin DOMAIN accounts

(* C11: for an address with no account, get_balance returns 0 and          *)
(* is_account_verified returns false, and neither creates an account or    *)
(* changes any state.                                                      *)
C11_QueriesOfUnknownAddress ==
    [][QueryOfUnknown =>
        /\ last'.ret.val = 0
        /\ last'.op = "get_balance" => last'.ret.kind = "Value"
        /\ last'.op = "is_account_verified" => last'.ret.kind = "Bool"
        /\ UNCHANGED <<accounts, fee_pool, dividend_per_token, total_supply,
                       last_dividend_points, unclaimed_dividends, checkpoint_vars>>]_vars

(* get_balance has just answered 0 for an address without an account while *)
(* another address has one                                                 *)
C11_Witness ==
    /\ last.op = "get_balance"
    /\ last.address \notin DOMAIN accounts
    /\ last.ret.val = 0
    /\ DOMAIN accounts # {}

-----------------------------------------------------------------------------
(* Claims about restoring checkpoints, checked under SpecRestore *)

LoadReturnedOk == last'.op = "load_checkpoint" /\ last'.ret.kind = "Ok"

(* The snapshots taken when create_checkpoint made the record c *)
SnapshotsOf(c) == {i \in 1..Len(hist.snaps) : hist.snaps[i].checkpoint = c}

WholeSecs(t) == t \div TicksPerSec

(* accs holds what saved held: the same addresses, balances and verified *)
(* flags and the same last-claim times in whole seconds                   *)
SameAccounts(accs, saved) ==
    /\ DOMAIN accs = DOMAIN saved
    /\ \A a \in DOMAIN saved :
          /\ accs[a].balance = saved[a].balance
          /\ accs[a].verified = saved[a].verified
          /\ WholeSecs(accs[a].last_ubi_claim) = WholeSecs(saved[a].last_ubi_claim)

(* A create_checkpoint(true) call made while no mutex of the runtime is    *)
(* held or poisoned                                                        *)
ForcedCheckpointCall ==
    /\ last'.op = "create_checkpoint" /\ last'.force
    /\ mutex = AllFree

(* C12: after mutations, c = create_checkpoint(true), further mutations    *)
(* and load_checkpoint(c) returning Ok, the account map holds exactly the  *)
(* addresses of checkpoint time, each with the balance, verified flag and  *)
(* last-claim time (in whole seconds) it had then, and fee_pool and        *)
(* total_supply are those of checkpoint time: the forced call hands back   *)
(* its checkpoint c, and a load of c that returns Ok restores that state.  *)
C12_CheckpointRoundTrip ==
    [][/\ ForcedCheckpointCall => last'.ret.kind = "Ok"
       /\ LoadReturnedOk =>
            \A i \in SnapshotsOf(last'.checkpoint) :
                /\ SameAccounts(accounts', hist.snaps[i].accounts)
                /\ fee_pool' = hist.snaps[i].fee_pool
                /\ total_supply' = hist.snaps[i].total_supply]_vars


(* C13: after load_checkpoint(c) returns Ok, the root of the rebuilt       *)
(* Merkle tree equals c.root_hash, whatever time has passed since the      *)
(* checkpoint and in whatever order the accounts are visited.              *)
C13_RebuiltRootIsCheckpointRoot ==
    [][LoadReturnedOk =>
        CheckpointRoot(state_tree') = last'.checkpoint.root_hash]_vars

-----------------------------------------------------------------------------
(* Claims about checkpoints on one runtime, checked under SpecCheckpoint *)

ErrorKinds == {"NotFound", "InvalidData", "UnexpectedEof", "Io"}

LoadReturnedErr ==
    last'.op = "load_checkpoint" /\ last'.ret.kind \in ErrorKinds

(* C14: a load_checkpoint call that returns an error, whatever the error, *)
(* leaves the accounts, fee_pool, total_supply, the dividend bookkeeping  *)
(* and the state tree as they were before the call.                       *)
C14_FailedLoadLeavesState ==
    [][LoadReturnedErr =>
        UNCHANGED <<accounts, fee_pool, total_supply, dividend_per_token,
                    last_dividend_points, unclaimed_dividends, state_tree>>]_vars


(* The file named by c exists and the timestamp or the root hash stored in *)
(* it differs from the one in c                                            *)
StoredHeaderDiffers(c) ==
    /\ c.file_path \in DOMAIN files
    /\ \/ Len(files[c.file_path]) >= 1 /\ files[c.file_path][1] # c.timestamp
       \/ Len(files[c.file_path]) >= 2 /\ files[c.file_path][2] # c.root_hash

(* C15: load_checkpoint(c) on a file whose stored timestamp or root hash   *)
(* differs from c.timestamp or c.root_hash returns an error and has        *)
(* changed nothing of the live state.                                      *)
C15_HeaderMismatchFailsClosed ==
    [][(last'.op = "load_checkpoint" /\ StoredHeaderDiffers(last'.checkpoint)) =>
        /\ last'.ret.kind = "InvalidData"
        /\ UNCHANGED <<accounts, fee_pool, total_supply, dividend_per_token,
                       last_dividend_points, unclaimed_dividends, checkpoint_vars>>]_vars

(* C15: a load with a tampered root was refused while accounts exist and   *)
(* the file holds a complete checkpoint of them                            *)
C15_Witness ==
    /\ last.op = "load_checkpoint" /\ last.ret.kind = "InvalidData"
    /\ last.checkpoint.file_path \in DOMAIN files
    /\ Len(files[last.checkpoint.file_path]) > 5
    /\ files[last.checkpoint.file_path][1] = last.checkpoint.timestamp
    /\ files[last.checkpoint.file_path][2] # last.checkpoint.root_hash
    /\ DOMAIN accounts # {}


(* A create_checkpoint(false) call on a runtime whose most recent         *)
(* checkpoint was taken of the accounts as they are now                   *)
UnforcedCallOnUnchangedState ==
    /\ last'.op = "create_checkpoint" /\ ~last'.force
    /\ Len(checkpoints) > 0 /\ Len(hist.snaps) > 0
    /\ hist.snaps[Len(hist.snaps)].checkpoint = checkpoints[Len(checkpoints)]
    /\ hist.snaps[Len(hist.snaps)].accounts = accounts

(* C16: create_checkpoint(false), called when no account has changed      *)
(* since the most recent checkpoint, returns that checkpoint, appends      *)
(* nothing to the checkpoint list and writes no file, however much time    *)
(* has passed since that checkpoint.                                       *)
C16_UnforcedCheckpointIdempotent ==
    [][UnforcedCallOnUnchangedState =>
        /\ last'.ret.kind = "Ok"
        /\ last'.ret.checkpoint = checkpoints[Len(checkpoints)]
        /\ UNCHANGED <<checkpoints, files>>]_vars


(* A create_checkpoint call made while no mutex of the runtime is held or *)
(* poisoned, so that nothing but the call itself can stop it              *)
CheckpointCallOnFreeRuntime ==
    last'.op = "create_checkpoint" /\ mutex = AllFree

(* C17: every create_checkpoint call returns to its caller, with Ok or    *)
(* with an error; a call that has written a new checkpoint has appended   *)
(* its record to the list and returns Ok, even when no other thread runs. *)
C17_CreateCheckpointReturns ==
    [][CheckpointCallOnFreeRuntime =>
        /\ last'.ret.kind \in {"Ok", "Io"}
        /\ Len(checkpoints') > Len(checkpoints) => last'.ret.kind = "Ok"]_vars


(* C18: the checkpoint list holds at most max_checkpoints entries, and a  *)
(* latest_checkpoint() call made once a checkpoint has been created       *)
(* returns the most recently created one, the last of the list.           *)
C18_BoundedListAndLatest ==
    [][/\ Len(checkpoints') <= max_checkpoints'
       /\ (last'.op = "latest_checkpoint" /\ Len(checkpoints) > 0) =>
            /\ last'.ret.kind = "Ok"
            /\ last'.ret.checkpoint = checkpoints[Len(checkpoints)]]_vars


CheckpointFailedWithIo ==
    last'.op = "create_checkpoint" /\ last'.ret.kind = "Io"

(* C19: a create_checkpoint call that fails with an I/O error (the         *)
(* directory or the file cannot be created, or a write fails) leaves the   *)
(* accounts, fee_pool, total_supply and the checkpoint list as they were,  *)
(* so that no record of the failed checkpoint is listed.                   *)
C19_FailedCheckpointLeavesState ==
    [][CheckpointFailedWithIo =>
        UNCHANGED <<accounts, fee_pool, total_supply, checkpoints>>]_vars

(* C19: a write failed part-way through the checkpoint of existing        *)
(* accounts: the truncated file is on disk and no record is listed        *)
C19_Witness ==
    /\ last.op = "create_checkpoint" /\ last.ret.kind = "Io"
    /\ last.ret.msg = "write_all"
    /\ DOMAIN accounts # {}
    /\ NowSecs \in DOMAIN files /\ Len(files[NowSecs]) = 5
    /\ checkpoints = <<>>

-----------------------------------------------------------------------------
(* The MerkleTree used on its own: update_account commits states, and a   *)
(* proof is generated for an address and verified against the root        *)

MerkleAddresses == {ADDR_1, ADDR_2, ADDR_3}

(* the states committed, and the states a proof is verified with *)
CommittedStates ==
    {AccountState(0, 0, 0), AccountState(1, 0, 0), AccountState(0, 1, 0),
     AccountState(0, 0, 1)}

ProbedStates == CommittedStates

(* MerkleTree::update_account *)
update_account(address, state) ==
    /\ state_tree' = TreeUpdate(state_tree, address, state)
    /\ hist' = [hist EXCEPT !.committed = (address :> state) @@ @,
                         !.replaced = IF address \in DOMAIN hist.committed
                                      THEN Some(hist.committed[address]) ELSE None]
    /\ last' = MerkleCall("update_account", address, state, RetOk)
    /\ UNCHANGED <<now, accounts, fee_pool, dividend_per_token, total_supply,
                   last_dividend_points, unclaimed_dividends, checkpoints,
                   max_checkpoints, files, mutex, threads>>

(* p = tree.generate_proof(address), then                                  *)
(* MerkleTree::verify_proof(tree.root_hash().unwrap(), address, state, p)  *)
prove(address, state) ==
    /\ state_tree.root # None
    /\ \E p \in generate_proof(state_tree, address) :
          last' = MerkleCall("verify_proof", address, state,
                     IF p.kind = "Panic" THEN NoReturn("Panic")
                     ELSE IF p.kind = "None" THEN RetNoCheckpoint
                     ELSE RetBool(verify_proof(root_hash(state_tree)[1], address,
                                               state, p.proof)))
    /\ hist' = [hist EXCEPT !.replaced = None]
    /\ UNCHANGED <<now, accounts, fee_pool, dividend_per_token, total_supply,
                   last_dividend_points, unclaimed_dividends, checkpoint_vars>>

NextMerkle ==
    \/ \E address \in MerkleAddresses, state \in CommittedStates :
          update_account(address, state)
    \/ \E address \in MerkleAddresses, state \in ProbedStates :
          prove(address, state)

SpecMerkle == Init /\ [][NextMerkle]_vars

-----------------------------------------------------------------------------
(* Claims about Merkle proofs, checked under SpecMerkle *)

ProofOfCommittedAddress ==
    last'.op = "verify_proof" /\ last'.address \in DOMAIN state_tree.address_indices

(* C20: for a tree built by update_account calls, with any number of      *)
(* accounts from 1 up, and any address in it, generate_proof gives a      *)
(* proof p with which verify_proof against the root returns true for the  *)
(* state last committed for the address and false for any other state.    *)
C20_ProofsAcceptExactlyCommitted ==
    [][ProofOfCommittedAddress =>
        /\ last'.ret.kind = "Bool"
        /\ last'.ret.val = 1 <=> last'.state = hist.committed[last'.address]]_vars


(* The leaves a tree holds after the committed states: the leaf of each   *)
(* address at the index the address was given                             *)
LeavesOf(tree, committed) ==
    [i \in 1..Len(tree.leaves) |->
        LET address == CHOOSE a \in DOMAIN tree.address_indices :
                           tree.address_indices[a] = i - 1
        IN  Sha256Leaf(address, committed[address])]

(* C21: the root is determined by the update_account calls made: it is    *)
(* the root rebuilt from the leaves of the committed states in the order  *)
(* the addresses were first given; and update_account for an existing     *)
(* address with a state that differs in base_balance, last_update or      *)
(* streaming_rate changes the root.                                       *)
C21_MerkleDeterminism ==
    [][last'.op = "update_account" =>
        /\ state_tree'.root = RebuiltRoot(LeavesOf(state_tree', hist'.committed))
        /\ (/\ last'.address \in DOMAIN hist.committed
            /\ last'.state # hist.committed[last'.address])
           => state_tree'.root # state_tree.root]_vars

(* C21: update_account has replaced the state of an address of a tree of  *)
(* three accounts by one that differs only in streaming_rate              *)
C21_Witness ==
    /\ last.op = "update_account" /\ Len(state_tree.leaves) = 3
    /\ hist.replaced # None
    /\ hist.replaced[1].streaming_rate # last.state.streaming_rate
    /\ hist.replaced[1].base_balance = last.state.base_balance
    /\ hist.replaced[1].last_update = last.state.last_update


RECURSIVE TreeOf(_, _, _)
(* update_account(order[i], committed[order[i]]) for i = 1, 2, ... on tree *)
TreeOf(tree, committed, order) ==
    IF Len(order) = 0 THEN tree
    ELSE TreeOf(TreeUpdate(tree, order[1], committed[order[1]]), committed,
                Tail(order))

(* C22: the root does not depend on the construction order: a tree that   *)
(* is given the committed (address, state) leaves of this tree in any     *)
(* order of the addresses has the root of this tree.                      *)
C22_RootIndependentOfOrder ==
    \A order \in Orders(DOMAIN hist.committed) :
        TreeOf(NewTree, hist.committed, order).root = state_tree.root

-----------------------------------------------------------------------------
(* Several threads inside operations of one Runtime. Every field of the   *)
(* Runtime is a Mutex of its own; a thread moves from one lock() to the   *)
(* next in one step, since what it does in between touches only data      *)
(* whose mutex it holds. A lock() on a mutex held by another thread waits; *)
(* on a mutex the thread holds itself it never returns.                   *)

NumThreads == 2

(* calls a thread makes *)
MaxThreadCalls == 2

ThreadIds == 1..NumThreads

LockNames == DOMAIN AllFree

(* A thread outside every operation; pc = 0. The locals of the operation  *)
(* it is in: balance, dpt (current_dividend_per_token), n (new_dividends, *)
(* to_claim, the fee_pool read), supply (the total_supply read), order    *)
(* (that of accounts.iter())                                              *)
IdleThread ==
    [op |-> "idle", address |-> NoAddr, to_address |-> NoAddr, amount |-> 0,
     force |-> FALSE, pc |-> 0, holds |-> {}, balance |-> 0, dpt |-> FxZero,
     n |-> 0, supply |-> 0, order |-> <<>>, calls |-> 0]

Holder(m) == {t \in DOMAIN threads : m \in threads[t].holds}

(* thread t calls an operation *)
Begin(t, op, address, to_address, amount, force) ==
    /\ threads[t].op = "idle"
    /\ threads[t].calls < MaxThreadCalls
    /\ threads' = [threads EXCEPT ![t] =
                     [IdleThread EXCEPT !.op = op, !.address = address,
                                        !.to_address = to_address, !.amount = amount,
                                        !.force = force, !.pc = 1,
                                        !.calls = threads[t].calls + 1]]
    /\ last' = [Call(op, address, to_address, amount, NoReturn("Running"))
                  EXCEPT !.force = force]
    /\ UNCHANGED <<now, accounts, fee_pool, dividend_per_token, total_supply,
                   last_dividend_points, unclaimed_dividends, hist, state_tree,
                   checkpoints, max_checkpoints, files, mutex>>

(* thread t is at step pc of operation op *)
At(t, op, pc) == threads[t].op = op /\ threads[t].pc = pc

(* The threads after t has gone on to step pc holding also the mutexes ms *)
Goes(t, pc, ms, locals) ==
    [threads EXCEPT ![t] = [locals EXCEPT !.pc = pc, !.holds = @ \cup ms]]

(* The threads after t has returned: every guard is dropped *)
Returns(t) ==
    [threads EXCEPT ![t] = [IdleThread EXCEPT !.calls = threads[t].calls]]

(* The call record of the return of thread t's operation *)
Returned(t, ret) ==
    [Call(threads[t].op, threads[t].address, threads[t].to_address,
          threads[t].amount, ret) EXCEPT !.force = threads[t].force]

(* The mutexes in the order the operation op locks them: step pc of the   *)
(* operation begins with a lock() of the pc-th. claim_dividends and       *)
(* get_unclaimed_dividends begin with a call of update_account_dividends. *)
LockSequence(op) ==
    CASE op = "create_account" -> <<"accounts">>
      [] op = "get_balance" -> <<"accounts", "accounts">>
      [] op = "get_fee_pool" -> <<"fee_pool">>
      [] op = "transfer_with_fee" -> <<"accounts", "fee_pool">>
      [] op = "distribute_fees" -> <<"fee_pool", "total_supply", "dividend_per_token">>
      [] op = "update_account_dividends" ->
            <<"accounts", "dividend_per_token", "last_dividend_points",
              "unclaimed_dividends">>
      [] op = "get_unclaimed_dividends" ->
            <<"accounts", "dividend_per_token", "last_dividend_points",
              "unclaimed_dividends", "unclaimed_dividends">>
      [] op = "claim_dividends" ->
            <<"accounts", "dividend_per_token", "last_dividend_points",
              "unclaimed_dividends", "unclaimed_dividends", "accounts">>
      [] op = "create_checkpoint" ->
            <<"accounts", "fee_pool", "total_supply", "state_tree", "checkpoints",
              "checkpoints">>
      [] OTHER -> <<>>

(* The mutex the next step of thread t locks *)
Wants(t) ==
    IF threads[t].pc \in 1..Len(LockSequence(threads[t].op))
    THEN {LockSequence(threads[t].op)[threads[t].pc]}
    ELSE {}

(* the lock() thread t is at returns a guard *)
Ready(t) == \A m \in Wants(t) : Holder(m) = {} /\ mutex[m] = "free"

(* thread t is at a lock() of a mutex it holds itself *)
Relocking(t) == \E m \in Wants(t) : t \in Holder(m)

(* The mutexes after thread t has panicked: the guards it held are       *)
(* dropped by the unwinding, which poisons their mutexes                 *)
PoisonedBy(t) ==
    [m \in DOMAIN mutex |-> IF m \in threads[t].holds THEN "poisoned" ELSE mutex[m]]

(* lock().unwrap() on a poisoned mutex, or a lock() of a mutex the thread *)
(* holds that panics instead of waiting forever: the thread unwinds       *)
Panics(t) ==
    /\ threads[t].op # "idle"
    /\ \/ \E m \in Wants(t) : mutex[m] = "poisoned" /\ Holder(m) = {}
       \/ Relocking(t)
    /\ mutex' = PoisonedBy(t)
    /\ threads' = Returns(t)
    /\ last' = Returned(t, NoReturn("Panic"))
    /\ UNCHANGED <<now, accounts, fee_pool, dividend_per_token, total_supply,
                   last_dividend_points, unclaimed_dividends, hist, state_tree,
                   checkpoints, max_checkpoints, files>>

(* Runtime::create_account by thread t *)
Thread_create_account(t) ==
    /\ At(t, "create_account", 1) /\ Ready(t)
    /\ accounts' = IF threads[t].address \in DOMAIN accounts THEN accounts
                   ELSE (threads[t].address :> NewAccount) @@ accounts
    /\ hist' = IF threads[t].address \in DOMAIN accounts THEN hist
               ELSE [hist EXCEPT !.created_at = (threads[t].address :> now) @@ @]
    /\ last' = Returned(t, IF threads[t].address \in DOMAIN accounts
                           THEN RetErr("AlreadyExists", "")
                           ELSE RetAccount(NewAccount))
    /\ threads' = Returns(t)
    /\ UNCHANGED <<now, fee_pool, dividend_per_token, total_supply,
                   last_dividend_points, unclaimed_dividends, state_tree,
                   checkpoints, max_checkpoints, files, mutex>>

(* Runtime::get_balance by thread t: update_ubi_balance, which drops its  *)
(* guard when it returns, and then the read under a second guard          *)
Thread_get_balance(t) ==
    /\ threads[t].op = "get_balance" /\ Ready(t)
    /\ IF threads[t].pc = 1
       THEN /\ accounts' = UbiAccounts(threads[t].address)
            /\ hist' = [hist EXCEPT !.ubi = HistAdd(@, threads[t].address,
                                                    UbiTokens(threads[t].address))]
            /\ threads' = Goes(t, 2, {}, threads[t])
            /\ UNCHANGED last
       ELSE /\ last' = Returned(t, RetVal(IF threads[t].address \in DOMAIN accounts
                                          THEN accounts[threads[t].address].balance
                                          ELSE 0))
            /\ threads' = Returns(t)
            /\ UNCHANGED <<accounts, hist>>
    /\ UNCHANGED <<now, fee_pool, dividend_per_token, total_supply,
                   last_dividend_points, unclaimed_dividends, state_tree,
                   checkpoints, max_checkpoints, files, mutex>>

(* Runtime::get_fee_pool by thread t *)
Thread_get_fee_pool(t) ==
    /\ At(t, "get_fee_pool", 1) /\ Ready(t)
    /\ last' = Returned(t, RetVal(fee_pool))
    /\ threads' = Returns(t)
    /\ UNCHANGED <<now, accounts, fee_pool, dividend_per_token, total_supply,
                   last_dividend_points, unclaimed_dividends, hist, state_tree,
                   checkpoints, max_checkpoints, files, mutex>>

(* A plausible slip: the accounts guard dropped before the fee is added *)
TransferHoldsNothing == {}

(* The guards transfer_with_fee holds when it locks the fee pool *)
TransferHolds == {"accounts"}

(* Runtime::transfer_with_fee by thread t: under the accounts guard the   *)
(* check, the debit and the credit; then, still under it, the fee         *)
Thread_transfer_with_fee(t) ==
    /\ threads[t].op = "transfer_with_fee" /\ Ready(t)
    /\ IF threads[t].pc = 1
       THEN IF TransferResult(threads[t].address, threads[t].to_address,
                              threads[t].amount).kind # "Ok"
            THEN /\ last' = Returned(t, TransferResult(threads[t].address,
                                  threads[t].to_address, threads[t].amount))
                 /\ threads' = Returns(t)
                 /\ UNCHANGED <<accounts, fee_pool>>
            ELSE /\ accounts' = TransferAccounts(threads[t].address,
                                    threads[t].to_address, threads[t].amount)
                 /\ threads' = Goes(t, 2, TransferHolds, threads[t])
                 /\ UNCHANGED <<last, fee_pool>>
       ELSE /\ fee_pool' = fee_pool + TransferFee(threads[t].amount)
            /\ last' = Returned(t, RetOk)
            /\ threads' = Returns(t)
            /\ UNCHANGED accounts
    /\ UNCHANGED <<now, dividend_per_token, total_supply, last_dividend_points,
                   unclaimed_dividends, hist, state_tree, checkpoints,
                   max_checkpoints, files, mutex>>

(* Runtime::distribute_fees by thread t: the fee pool guard is held while *)
(* total_supply is read and while dividend_per_token is locked            *)
Thread_distribute_fees(t) ==
    /\ threads[t].op = "distribute_fees" /\ Ready(t)
    /\ CASE threads[t].pc = 1 ->
              /\ threads' = Goes(t, 2, {"fee_pool"}, threads[t])
              /\ UNCHANGED <<last, fee_pool, dividend_per_token, hist>>
         [] threads[t].pc = 2 ->
              IF total_supply = 0 \/ fee_pool = 0
              THEN /\ last' = Returned(t, RetVal(0))
                   /\ threads' = Returns(t)
                   /\ UNCHANGED <<fee_pool, dividend_per_token, hist>>
              ELSE /\ threads' = Goes(t, 3, {}, [threads[t] EXCEPT !.supply = total_supply])
                   /\ UNCHANGED <<last, fee_pool, dividend_per_token, hist>>
         [] OTHER ->
              /\ dividend_per_token' =
                     FxAdd(dividend_per_token, ScaledQuotient(fee_pool, threads[t].supply))
              /\ fee_pool' = 0
              /\ hist' = [hist EXCEPT !.distributed = @ + fee_pool, !.claimed_since = {},
                                       !.balanced = @ /\ SupplyIsSumOfBalances]
              /\ last' = Returned(t, RetVal(fee_pool))
              /\ threads' = Returns(t)
    /\ UNCHANGED <<now, accounts, total_supply, last_dividend_points,
                   unclaimed_dividends, state_tree, checkpoints, max_checkpoints,
                   files, mutex>>

DividendOps == {"update_account_dividends", "get_unclaimed_dividends", "claim_dividends"}

(* update_account_dividends has returned n: to its caller, or into        *)
(* get_unclaimed_dividends or claim_dividends, which go on to their own   *)
(* lock of unclaimed_dividends; all guards are dropped                    *)
DividendsUpdated(t, n) ==
    IF threads[t].op = "update_account_dividends"
    THEN /\ last' = Returned(t, RetVal(n))
         /\ threads' = Returns(t)
    ELSE /\ threads' = [threads EXCEPT ![t].pc = 5, ![t].holds = {}]
         /\ UNCHANGED last

ThreadDividendPointsStale(t) == last_dividend_points

(* last_points.insert(address.to_string(), current_dividend_per_token) *)
ThreadDividendPoints(t) ==
    (threads[t].address :> threads[t].dpt) @@ last_dividend_points

(* Runtime::update_account_dividends by thread t, called from outside or  *)
(* by get_unclaimed_dividends or claim_dividends: the accounts guard is   *)
(* held to the end, over the locks of dividend_per_token,                 *)
(* last_dividend_points and unclaimed_dividends                           *)
Thread_update_account_dividends(t) ==
    /\ threads[t].op \in DividendOps /\ threads[t].pc \in 1..4 /\ Ready(t)
    /\ CASE threads[t].pc = 1 ->
              /\ IF threads[t].address \notin DOMAIN accounts
                 THEN DividendsUpdated(t, 0)
                 ELSE /\ threads' = Goes(t, 2, {"accounts"},
                            [threads[t] EXCEPT
                               !.balance = accounts[threads[t].address].balance])
                      /\ UNCHANGED last
              /\ UNCHANGED <<last_dividend_points, unclaimed_dividends>>
         [] threads[t].pc = 2 ->
              /\ threads' = Goes(t, 3, {}, [threads[t] EXCEPT !.dpt = dividend_per_token])
              /\ UNCHANGED <<last, last_dividend_points, unclaimed_dividends>>
         [] threads[t].pc = 3 ->
              LET new_dividends ==
                      ScaledProduct(threads[t].balance,
                                    FxSub(threads[t].dpt,
                                          Get(last_dividend_points, threads[t].address,
                                              FxZero)))
              IN  /\ last_dividend_points' = ThreadDividendPoints(t)
                  /\ IF new_dividends > 0
                     THEN /\ threads' = Goes(t, 4, {}, [threads[t] EXCEPT !.n = new_dividends])
                          /\ UNCHANGED last
                     ELSE DividendsUpdated(t, 0)
                  /\ UNCHANGED unclaimed_dividends
         [] OTHER ->
              /\ unclaimed_dividends' =
                     (threads[t].address :>
                         (Get(unclaimed_dividends, threads[t].address, 0) + threads[t].n))
                     @@ unclaimed_dividends
              /\ DividendsUpdated(t, threads[t].n)
              /\ UNCHANGED last_dividend_points
    /\ UNCHANGED <<now, accounts, fee_pool, dividend_per_token, total_supply, hist,
                   state_tree, checkpoints, max_checkpoints, files, mutex>>

(* Runtime::get_unclaimed_dividends by thread t, after its call of        *)
(* update_account_dividends                                               *)
Thread_get_unclaimed_dividends(t) ==
    /\ At(t, "get_unclaimed_dividends", 5) /\ Ready(t)
    /\ last' = Returned(t, RetVal(Get(unclaimed_dividends, threads[t].address, 0)))
    /\ threads' = Returns(t)
    /\ UNCHANGED <<now, accounts, fee_pool, dividend_per_token, total_supply,
                   last_dividend_points, unclaimed_dividends, hist, state_tree,
                   checkpoints, max_checkpoints, files, mutex>>

(* Runtime::claim_dividends by thread t, after its call of                *)
(* update_account_dividends: the unclaimed_dividends guard is held while  *)
(* accounts is locked                                                     *)
Thread_claim_dividends(t) ==
    /\ threads[t].op = "claim_dividends" /\ threads[t].pc \in {5, 6} /\ Ready(t)
    /\ IF threads[t].pc = 5
       THEN IF Get(unclaimed_dividends, threads[t].address, 0) = 0
            THEN /\ last' = Returned(t, RetVal(0))
                 /\ threads' = Returns(t)
                 /\ UNCHANGED <<accounts, unclaimed_dividends, hist>>
            ELSE /\ unclaimed_dividends' = (threads[t].address :> 0) @@ unclaimed_dividends
                 /\ threads' = Goes(t, 6, {"unclaimed_dividends"},
                       [threads[t] EXCEPT
                          !.n = unclaimed_dividends[threads[t].address]])
                 /\ UNCHANGED <<last, accounts, hist>>
       ELSE /\ accounts' = IF threads[t].address \in DOMAIN accounts
                           THEN [accounts EXCEPT ![threads[t].address].balance =
                                                    @ + threads[t].n]
                           ELSE accounts
            /\ hist' = [hist EXCEPT
                          !.claimed = HistAdd(@, threads[t].address, threads[t].n),
                          !.claimed_since = @ \cup {threads[t].address}]
            /\ last' = Returned(t, RetVal(threads[t].n))
            /\ threads' = Returns(t)
            /\ UNCHANGED unclaimed_dividends
    /\ UNCHANGED <<now, fee_pool, dividend_per_token, total_supply,
                   last_dividend_points, state_tree, checkpoints, max_checkpoints,
                   files, mutex>>

(* Runtime::create_checkpoint by thread t, with no failure of the file    *)
(* system: the guards of accounts, state_tree and checkpoints are held to *)
(* the end, and the last step is the lock of checkpoints in               *)
(* prune_checkpoints, which the thread holds                              *)
Thread_create_checkpoint(t) ==
    /\ threads[t].op = "create_checkpoint" /\ Ready(t)
    /\ CASE threads[t].pc = 1 ->
              /\ threads' = Goes(t, 2, {"accounts"}, threads[t])
              /\ UNCHANGED <<last, state_tree, checkpoints, files, hist>>
         [] threads[t].pc = 2 ->
              /\ threads' = Goes(t, 3, {}, [threads[t] EXCEPT !.n = fee_pool])
              /\ UNCHANGED <<last, state_tree, checkpoints, files, hist>>
         [] threads[t].pc = 3 ->
              /\ threads' = Goes(t, 4, {}, [threads[t] EXCEPT !.supply = total_supply])
              /\ UNCHANGED <<last, state_tree, checkpoints, files, hist>>
         [] threads[t].pc = 4 ->
              /\ \E order \in Orders(DOMAIN accounts) :
                    /\ state_tree' = TreeWith(state_tree, accounts, order)
                    /\ threads' = Goes(t, 5, {"state_tree"},
                                       [threads[t] EXCEPT !.order = order])
              /\ UNCHANGED <<last, checkpoints, files, hist>>
         [] OTHER ->
              LET root == CheckpointRoot(state_tree)
                  c == StateCheckpoint(NowSecs, root, Cardinality(DOMAIN accounts),
                                       threads[t].supply, threads[t].n, NowSecs)
              IN  IF /\ ~threads[t].force
                     /\ Len(checkpoints) > 0
                     /\ checkpoints[Len(checkpoints)].root_hash = root
                  THEN /\ last' = Returned(t, RetCheckpoint(checkpoints[Len(checkpoints)]))
                       /\ threads' = Returns(t)
                       /\ UNCHANGED <<checkpoints, files, hist>>
                  ELSE /\ files' = (NowSecs :>
                                      (HeaderFields(NowSecs, root,
                                                    Cardinality(DOMAIN accounts),
                                                    threads[t].supply, threads[t].n)
                                       \o AccountFields(accounts, threads[t].order)))
                                   @@ files
                       /\ checkpoints' = Append(checkpoints, c)
                       /\ hist' = [hist EXCEPT !.snaps = Append(@,
                                      [checkpoint |-> c, accounts |-> accounts,
                                       fee_pool |-> threads[t].n,
                                       total_supply |-> threads[t].supply,
                                       restarts |-> hist.restarts])]
                       /\ threads' = Goes(t, 6, {"checkpoints"}, threads[t])
                       /\ UNCHANGED last
              /\ UNCHANGED state_tree
    /\ UNCHANGED <<now, accounts, fee_pool, dividend_per_token, total_supply,
                   last_dividend_points, unclaimed_dividends, max_checkpoints, mutex>>

(* Two holders and fees to distribute, so that both have dividends *)
ThreadHoldings == {(ADDR_1 :> 300) @@ (ADDR_2 :> 100)}

ThreadFeePools == {4}

ThreadAmounts == {100}

InitThreads ==
    /\ InitHoldings(ThreadHoldings, ThreadFeePools)
    /\ threads = [t \in ThreadIds |-> IdleThread]

(* The calls the threads make *)
Calls(t) ==
    \/ Begin(t, "create_account", ADDR_3, NoAddr, 0, FALSE)
    \/ Begin(t, "get_balance", ADDR_1, NoAddr, 0, FALSE)
    \/ Begin(t, "get_fee_pool", NoAddr, NoAddr, 0, FALSE)
    \/ \E amount \in ThreadAmounts :
          Begin(t, "transfer_with_fee", ADDR_1, ADDR_2, amount, FALSE)
    \/ Begin(t, "distribute_fees", NoAddr, NoAddr, 0, FALSE)
    \/ Begin(t, "update_account_dividends", ADDR_2, NoAddr, 0, FALSE)
    \/ Begin(t, "get_unclaimed_dividends", ADDR_2, NoAddr, 0, FALSE)
    \/ Begin(t, "claim_dividends", ADDR_1, NoAddr, 0, FALSE)
    \/ \E force \in BOOLEAN : Begin(t, "create_checkpoint", NoAddr, NoAddr, 0, force)

Steps(t) ==
    \/ Thread_create_account(t)
    \/ Thread_get_balance(t)
    \/ Thread_get_fee_pool(t)
    \/ Thread_transfer_with_fee(t)
    \/ Thread_distribute_fees(t)
    \/ Thread_update_account_dividends(t)
    \/ Thread_get_unclaimed_dividends(t)
    \/ Thread_claim_dividends(t)
    \/ Thread_create_checkpoint(t)
    \/ Panics(t)

NextThreads ==
    \/ \E t \in ThreadIds : Calls(t)
    \/ \E t \in ThreadIds : Steps(t)

SpecThreads == InitThreads /\ [][NextThreads]_vars

-----------------------------------------------------------------------------
(* Claims about concurrent callers, checked under SpecThreads *)

(* thread t is at a lock() of a mutex that thread u holds *)
WaitsOn(t, u) == \E m \in Wants(t) : u \in Holder(m)

(* C23: deadlock freedom: in no reachable state do two threads inside     *)
(* operations of the Runtime wait on each other's locks, each at a lock() *)
(* of a mutex the other holds, so that neither invocation ever returns.   *)
C23_NoThreadsWaitOnEachOther ==
    \A t, u \in ThreadIds : t # u => ~(WaitsOn(t, u) /\ WaitsOn(u, t))


(* The mutexes thread t has locked once the lock() it is at has returned *)
LockedAfter(t) == threads[t].holds \cup Wants(t)

(* C24: no public operation holds two state locks at the same time: a     *)
(* thread inside an operation whose lock() returns a guard holds no guard *)
(* of another mutex at that moment.                                       *)
C24_OneLockAtATime ==
    \A t \in ThreadIds :
        (threads[t].op # "idle" /\ Ready(t)) => Cardinality(LockedAfter(t)) <= 1


(* thread t is inside transfer_with_fee between the change of the two *)
(* balances and the addition of the fee to the pool                   *)
MidTransfer(t) == At(t, "transfer_with_fee", 2)

(* thread u has, or is given by the lock() it is at, the guard of accounts: *)
(* it reads the balances, and is not itself half-way through a transfer     *)
ReadsBalances(u) ==
    /\ threads[u].op # "idle"
    /\ ~MidTransfer(u)
    /\ \/ "accounts" \in threads[u].holds
       \/ "accounts" \in Wants(u) /\ Ready(u)

(* The balances and the fee pool are those after a number of whole      *)
(* transfers: what has left the balances as fees is in the pool or was  *)
(* distributed from it, and what has entered them was claimed or minted *)
BalancesMatchFeePool ==
    SumOver([a \in DOMAIN accounts |-> accounts[a].balance], DOMAIN accounts)
        + fee_pool + hist.distributed
    = total_supply + (CHOOSE p \in ThreadFeePools : TRUE)
        + SumOver(hist.claimed, DOMAIN hist.claimed)
        + SumOver(hist.ubi, DOMAIN hist.ubi)

(* C25: transfer_with_fee is atomic for concurrent callers: whenever a     *)
(* thread inside get_balance, transfer_with_fee, create_checkpoint or any  *)
(* other operation reads the balances, no transfer of another thread is    *)
(* half done, and the balances with the fee pool are those between whole   *)
(* transfers; every checkpoint written pairs such balances with the fee    *)
(* pool read under the same accounts guard (a pool that distribute_fees    *)
(* may have emptied since, which moves it whole into the distributed sum). *)
C25_TransferIsAtomic ==
    /\ \A u \in ThreadIds :
          ReadsBalances(u) =>
              /\ \A t \in ThreadIds : ~MidTransfer(t)
              /\ BalancesMatchFeePool
    /\ \A u \in ThreadIds :
          (threads[u].op = "create_checkpoint" /\ threads[u].pc \in 3..6) =>
              /\ "accounts" \in threads[u].holds
              /\ SumOver([a \in DOMAIN accounts |-> accounts[a].balance],
                         DOMAIN accounts) + threads[u].n + hist.distributed
                 \in {total_supply + (CHOOSE p \in ThreadFeePools : TRUE)
                        + SumOver(hist.claimed, DOMAIN hist.claimed)
                        + SumOver(hist.ubi, DOMAIN hist.ubi) + d : d \in {0, threads[u].n}}

(* C25 witness: a transfer is half done while another thread is between *)
(* the two locks of get_balance, and waits for the accounts guard       *)
C25_Witness ==
    \E t, u \in ThreadIds :
        /\ MidTransfer(t)
        /\ At(u, "get_balance", 2)
        /\ ~BalancesMatchFeePool

-----------------------------------------------------------------------------
(* Fees and dividends in processes that follow one another: a ledger with *)
(* fees to distribute is checkpointed, and the checkpoint is loaded by    *)
(* later processes, which go on collecting and distributing fees          *)

ReloadHoldings == {(ADDR_1 :> 300) @@ (ADDR_2 :> 100)}

ReloadFeePools == {4}

ReloadAmounts == {100}

(* Fees are distributed until MaxReloadFees tokens have been *)
MaxReloadFees == 5

(* Checkpoints are written until there are MaxReloadCheckpoints *)
MaxReloadCheckpoints == 1

InitReload == InitHoldings(ReloadHoldings, ReloadFeePools) /\ threads = NoThreads

NextReload ==
    \/ \E amount \in ReloadAmounts :
          /\ LockFailure(<<"accounts">>) = "none"
          /\ hist.distributed + fee_pool < MaxReloadFees
          /\ transfer_with_fee(ADDR_1, ADDR_2, amount)
    \/ hist.distributed < MaxReloadFees /\ distribute_fees
    \/ \E address \in DOMAIN accounts :
          LockFailure(<<"accounts">>) = "none" /\ get_unclaimed_dividends(address)
    \/ \E address \in DOMAIN accounts :
          LockFailure(<<"accounts">>) = "none" /\ claim_dividends(address)
    \/ Len(hist.snaps) < MaxReloadCheckpoints /\ create_checkpoint(TRUE, Io("none", 0))
    \/ \E c \in KnownCheckpoints : load_checkpoint(c)
    \/ Restart

SpecReload == InitReload /\ [][NextReload]_vars


-----------------------------------------------------------------------------
(* Claims about fees and dividends across checkpoint loads, checked under *)
(* SpecReload                                                             *)

(* a step of the Runtime in use, not the construction of a new one *)
SameRuntime == last'.op # "new"

(* C26: fee_pool is increased only by a successful transfer_with_fee, by  *)
(* amount / 100, and set to zero only by distribute_fees; no other        *)
(* operation changes it.                                                  *)
C26_FeePoolChangedOnlyByTransferAndDistribute ==
    [][(SameRuntime /\ fee_pool' # fee_pool) =>
          \/ /\ last'.op = "transfer_with_fee"
             /\ last'.ret.kind = "Ok"
             /\ fee_pool' = fee_pool + (last'.amount \div 100)
          \/ /\ last'.op = "distribute_fees"
             /\ fee_pool' = 0]_vars


(* C27: dividend_per_token never decreases in the lifetime of a Runtime, *)
(* checkpoint loads included.                                            *)
C27_DividendPerTokenNeverDecreases ==
    [][SameRuntime => FxLeq(dividend_per_token, dividend_per_token')]_vars


(* Nothing is distributed and nothing is owed: dividend_per_token is 0, *)
(* every last-seen point is 0 and every unclaimed amount is 0           *)
NoDividends(per_token, points, unclaimed) ==
    /\ per_token = FxZero
    /\ \A a \in DOMAIN points : points[a] = FxZero
    /\ \A a \in DOMAIN unclaimed : unclaimed[a] = 0

DividendQueryReturned ==
    /\ last'.op \in {"get_unclaimed_dividends", "claim_dividends"}
    /\ last'.ret.kind = "Value"

(* C30: after load_checkpoint returns Ok, dividend_per_token is 0 and no   *)
(* address has a last-seen point or an unclaimed amount; this lasts until  *)
(* the next distribute_fees, and while it lasts get_unclaimed_dividends    *)
(* and claim_dividends return 0 for every account.                         *)
C30_NoDividendsAfterLoad ==
    [][/\ LoadReturnedOk =>
             /\ dividend_per_token' = FxZero
             /\ DOMAIN last_dividend_points' = {}
             /\ DOMAIN unclaimed_dividends' = {}
       /\ (/\ NoDividends(dividend_per_token, last_dividend_points, unclaimed_dividends)
           /\ last'.op # "distribute_fees")
          => NoDividends(dividend_per_token', last_dividend_points', unclaimed_dividends')
       /\ (/\ NoDividends(dividend_per_token, last_dividend_points, unclaimed_dividends)
           /\ DividendQueryReturned)
          => last'.ret.val = 0]_vars

(* C30 witness: fees were distributed, a checkpoint was loaded after that, *)
(* and a holder's claim_dividends returned 0                               *)
C30_Witness ==
    /\ last.op = "claim_dividends"
    /\ last.ret.kind = "Value"
    /\ last.ret.val = 0
    /\ hist.restarts >= 1
    /\ hist.distributed > 0
    /\ fee_pool > 0
    /\ dividend_per_token = FxZero
    /\ last.address \in DOMAIN accounts
    /\ accounts[last.address].balance > 0

-----------------------------------------------------------------------------
(* The ledger called with two spellings of one address *)

CaseAmounts == {0, 1}

NextCase ==
    \/ Tick(QueryTimes)
    \/ \E address \in CaseStrings : create_account(address)
    \/ \E address \in CaseStrings : verify_account(address)
    \/ \E address \in CaseStrings : get_balance(address)
    \/ \E from_address \in CaseStrings, to_address \in CaseStrings,
          amount \in CaseAmounts :
          transfer_with_fee(from_address, to_address, amount)

SpecCase == Init /\ [][NextCase]_vars

(* char::to_ascii_lowercase on the letters of hex digits *)
to_ascii_lowercase(c) ==
    CASE c = "A" -> "a" [] c = "B" -> "b" [] c = "C" -> "c"
      [] c = "D" -> "d" [] c = "E" -> "e" [] c = "F" -> "f"
      [] OTHER -> c

(* the strings s and t differ at most in the case of their hex letters *)
SameIgnoringCase(s, t) ==
    /\ StrLen(s) = StrLen(t)
    /\ \A i \in 1..StrLen(s) :
          to_ascii_lowercase(CharAt(s, i)) = to_ascii_lowercase(CharAt(t, i))

(* C29: addresses are case-insensitive unique keys: create_account on a  *)
(* valid string that differs from the address of an existing account     *)
(* only in the case of its hex letters returns AlreadyExists, and no two *)
(* accounts are ever kept under two spellings of one address.            *)
C29_AddressesIgnoreCase ==
    [][/\ (/\ last'.op = "create_account"
           /\ ValidAddress[last'.address]
           /\ \E k \in DOMAIN accounts : SameIgnoringCase(k, last'.address))
          => last'.ret = RetErr("AlreadyExists", "")
       /\ \A a, b \in DOMAIN accounts' : SameIgnoringCase(a, b) => a = b]_vars

-----------------------------------------------------------------------------
(* 64-bit arithmetic at full width. A u64 is the sequence of its eight     *)
(* bytes, least significant first, as u64::to_le_bytes gives them; sums,   *)
(* differences and products are computed exactly, byte by byte.            *)

RECURSIVE to_le_bytes(_, _)
(* the k low bytes of the number n *)
to_le_bytes(n, k) ==
    IF k = 0 THEN <<>> ELSE <<n % 256>> \o to_le_bytes(n \div 256, k - 1)

U64(n) == to_le_bytes(n, 8)

(* 2^62, 2^63 and u64::MAX *)
U64_QUARTER == <<0, 0, 0, 0, 0, 0, 0, 64>>

U64_HALF == <<0, 0, 0, 0, 0, 0, 0, 128>>

U64_MAX == <<255, 255, 255, 255, 255, 255, 255, 255>>

(* x with zero bytes above it, k bytes in all *)
Pad(x, k) == x \o [i \in 1..(k - Len(x)) |-> 0]

RECURSIVE AddBytes(_, _, _)
(* x + y + carry for x and y of one length; one byte longer *)
AddBytes(x, y, carry) ==
    IF x = <<>> THEN <<carry>>
    ELSE LET s == Head(x) + Head(y) + carry
         IN  <<s % 256>> \o AddBytes(Tail(x), Tail(y), s \div 256)

RECURSIVE SubBytes(_, _, _)
(* x - y - borrow modulo 256^Len(x), followed by the borrow out of the top *)
SubBytes(x, y, borrow) ==
    IF x = <<>> THEN <<borrow>>
    ELSE LET d == Head(x) - Head(y) - borrow
         IN  <<(d + 256) % 256>> \o SubBytes(Tail(x), Tail(y), IF d < 0 THEN 1 ELSE 0)

RECURSIVE MulByte(_, _, _)
(* x * d + carry for a byte d; one byte longer *)
MulByte(x, d, carry) ==
    IF x = <<>> THEN <<carry>>
    ELSE LET p == Head(x) * d + carry
         IN  <<p % 256>> \o MulByte(Tail(x), d, p \div 256)

RECURSIVE MulBytes(_, _)
(* x * y in Len(x) + Len(y) bytes *)
MulBytes(x, y) ==
    IF y = <<>> THEN Pad(<<>>, Len(x))
    ELSE SubSeq(AddBytes(Pad(MulByte(x, Head(y), 0), Len(x) + Len(y)),
                         <<0>> \o MulBytes(x, Tail(y)), 0),
                1, Len(x) + Len(y))

(* The u64 operators: the value a release build computes, which wraps, *)
(* and whether the exact result is outside [0, 2^64), on which a build *)
(* with overflow checks panics                                         *)
U64Add(x, y) ==
    LET e == AddBytes(x, y, 0) IN [value |-> SubSeq(e, 1, 8), overflow |-> e[9] # 0]

U64Sub(x, y) ==
    LET e == SubBytes(x, y, 0) IN [value |-> SubSeq(e, 1, 8), overflow |-> e[9] # 0]

U64Mul(x, y) ==
    LET e == MulBytes(x, y)
    IN  [value |-> SubSeq(e, 1, 8), overflow |-> \E i \in 9..16 : e[i] # 0]

(* x <= y *)
U64Leq(x, y) == ~U64Sub(y, x).overflow

(* u64::saturating_sub *)
saturating_sub(x, y) == IF U64Sub(x, y).overflow THEN U64(0) ELSE U64Sub(x, y).value

(* compute_current_balance:                                           *)
(* base_balance + streaming_rate * (now - last_update)                *)
compute_current_balance(account, now_secs) ==
    LET elapsed == U64Sub(now_secs, account.last_update)
        streamed == U64Mul(account.streaming_rate, elapsed.value)
        total == U64Add(account.base_balance, streamed.value)
    IN  [value |-> total.value,
         overflow |-> elapsed.overflow \/ streamed.overflow \/ total.overflow]

(* What the caller gets from an arithmetic result r: the value, or, when *)
(* a step overflowed, the panic of a build with overflow checks or the   *)
(* wrapped value of a build without                                      *)
ArithmeticOutcomes(r) ==
    IF r.overflow THEN {NoReturn("Panic"), RetVal(r.value)} ELSE {RetVal(r.value)}

(* A caller evaluates compute_current_balance *)
ComputeCurrentBalance(account, now_secs) ==
    /\ \E ret \in ArithmeticOutcomes(compute_current_balance(account, now_secs)) :
          last' = [Call("compute_current_balance", NoAddr, NoAddr, now_secs, ret)
                     EXCEPT !.state = account]
    /\ UNCHANGED <<now, accounts, fee_pool, dividend_per_token, total_supply,
                   last_dividend_points, unclaimed_dividends, hist, checkpoint_vars>>

(* update_account_state: the account after base_balance is set to the  *)
(* current balance and last_update to now                              *)
update_account_state(account, now_secs) ==
    LET current == compute_current_balance(account, now_secs)
    IN  [state |-> [account EXCEPT !.base_balance = current.value,
                                   !.last_update = now_secs],
         overflow |-> current.overflow]

(* A caller hands its AccountState to update_account_state; ret.account *)
(* is the AccountState when the call is over. A panic in                *)
(* compute_current_balance comes before the two assignments             *)
UpdateAccountState(account, now_secs) ==
    /\ \E ret \in {RetAccount(update_account_state(account, now_secs).state)}
                  \cup IF update_account_state(account, now_secs).overflow
                       THEN {[NoReturn("Panic") EXCEPT !.account = account]}
                       ELSE {} :
          last' = [Call("update_account_state", NoAddr, NoAddr, now_secs, ret)
                     EXCEPT !.state = account]
    /\ UNCHANGED <<now, accounts, fee_pool, dividend_per_token, total_supply,
                   last_dividend_points, unclaimed_dividends, hist, checkpoint_vars>>

(* Runtime::update_total_supply with total_supply at full width: a panic *)
(* in the addition unwinds through the guard and poisons the mutex       *)
update_total_supply_u64(amount, is_addition) ==
    /\ UNCHANGED <<now, accounts, fee_pool, dividend_per_token,
                   last_dividend_points, unclaimed_dividends, hist, state_tree,
                   checkpoints, max_checkpoints, files, threads>>
    /\ IF LockFailure(<<"total_supply">>) # "none"
       THEN /\ last' = [Call("update_total_supply", NoAddr, NoAddr, amount,
                             NoReturn(LockFailure(<<"total_supply">>)))
                          EXCEPT !.force = is_addition]
            /\ UNCHANGED <<total_supply, mutex>>
       ELSE IF ~is_addition
       THEN /\ total_supply' = saturating_sub(total_supply, amount)
            /\ last' = [Call("update_total_supply", NoAddr, NoAddr, amount, RetOk)
                          EXCEPT !.force = is_addition]
            /\ UNCHANGED mutex
       ELSE \E ret \in ArithmeticOutcomes(U64Add(total_supply, amount)) :
            /\ last' = [Call("update_total_supply", NoAddr, NoAddr, amount,
                             IF ret.kind = "Panic" THEN ret ELSE RetOk)
                          EXCEPT !.force = is_addition]
            /\ total_supply' = IF ret.kind = "Panic" THEN total_supply ELSE ret.val
            /\ mutex' = IF ret.kind = "Panic"
                        THEN [mutex EXCEPT !["total_supply"] = "poisoned"]
                        ELSE mutex

(* Supplies minted and burned in quarters of the range of u64 *)
SupplyChanges == {U64(0), U64_QUARTER, U64_HALF}

(* Account states and clock readings given to compute_current_balance *)
BaseBalances == {U64(0), U64(1), U64_MAX}

StreamingRates == {U64(0), U64(1), U64_HALF}

UpdateSecs == {U64(0), U64(1), U64(3)}

InitArithmetic ==
    /\ now = 0
    /\ accounts = [a \in {} |-> NoAccount]
    /\ fee_pool = 0
    /\ dividend_per_token = FxZero
    /\ total_supply = U64(0)
    /\ last_dividend_points = [a \in {} |-> FxZero]
    /\ unclaimed_dividends = [a \in {} |-> 0]
    /\ last = Call("new", NoAddr, NoAddr, 0, RetOk)
    /\ hist = HistInit
    /\ state_tree = NewTree
    /\ checkpoints = <<>>
    /\ max_checkpoints = DefaultMaxCheckpoints
    /\ threads = NoThreads
    /\ files = NoFiles
    /\ mutex = AllFree

NextArithmetic ==
    \/ \E amount \in SupplyChanges, is_addition \in BOOLEAN :
          update_total_supply_u64(amount, is_addition)
    \/ \E base_balance \in BaseBalances, last_update \in UpdateSecs,
          streaming_rate \in StreamingRates, now_secs \in UpdateSecs :
          ComputeCurrentBalance(AccountState(base_balance, last_update, streaming_rate),
                                now_secs)

SpecArithmetic == InitArithmetic /\ [][NextArithmetic]_vars

(* C28: no operation panics or silently wraps on 64-bit arithmetic, for  *)
(* any u64 arguments and any reachable state: update_total_supply's      *)
(* addition leaves total_supply the exact sum and returns, and           *)
(* compute_current_balance returns base_balance + streaming_rate *       *)
(* (now - last_update) with every intermediate value within [0, 2^64).   *)
C28_ArithmeticStaysInRange ==
    [][/\ (last'.op = "update_total_supply" /\ last'.force /\ mutex = AllFree) =>
             /\ last'.ret.kind = "Ok"
             /\ Pad(total_supply', 9) = AddBytes(total_supply, last'.amount, 0)
       /\ last'.op = "compute_current_balance" =>
             /\ last'.ret.kind = "Value"
             /\ ~compute_current_balance(last'.state, last'.amount).overflow]_vars

(* Callers of the two functions of the streaming balance *)
NextStreaming ==
    \E base_balance \in BaseBalances, last_update \in UpdateSecs,
       streaming_rate \in StreamingRates, now_secs \in UpdateSecs :
       \/ ComputeCurrentBalance(AccountState(base_balance, last_update, streaming_rate),
                                now_secs)
       \/ UpdateAccountState(AccountState(base_balance, last_update, streaming_rate),
                             now_secs)

SpecStreaming == InitArithmetic /\ [][NextStreaming]_vars

(* base_balance + streaming_rate * (t - last_update) as an exact number *)
(* of seventeen bytes, for last_update <= t                             *)
StreamedExactly(account, t) ==
    AddBytes(Pad(account.base_balance, 16),
             MulBytes(account.streaming_rate, U64Sub(t, account.last_update).value),
             0)

(* C38: for an AccountState s and times last_update <= t1 <= t2,          *)
(* compute_current_balance(s, t) is base_balance + streaming_rate *       *)
(* (t - last_update); update_account_state(s, t1) sets base_balance to    *)
(* compute_current_balance(s, t1) and last_update to t1 and leaves        *)
(* streaming_rate unchanged; and folding is lossless:                     *)
(* compute_current_balance of the updated state at t2 equals              *)
(* compute_current_balance of the original s at t2.                       *)
C38_StreamingBalanceFolds ==
    [][/\ (/\ last'.op = "compute_current_balance"
           /\ U64Leq(last'.state.last_update, last'.amount))
          => /\ last'.ret.kind = "Value"
             /\ Pad(last'.ret.val, 17) = StreamedExactly(last'.state, last'.amount)
       /\ (/\ last'.op = "update_account_state"
           /\ U64Leq(last'.state.last_update, last'.amount))
          => /\ last'.ret.kind = "Ok"
             /\ Pad(last'.ret.account.base_balance, 17)
                  = StreamedExactly(last'.state, last'.amount)
             /\ last'.ret.account.last_update = last'.amount
             /\ last'.ret.account.streaming_rate = last'.state.streaming_rate
             /\ \A t2 \in UpdateSecs :
                   U64Leq(last'.amount, t2) =>
                      Pad(compute_current_balance(last'.ret.account, t2).value, 17)
                        = StreamedExactly(last'.state, t2)]_vars

-----------------------------------------------------------------------------
(* Threads in the dividend operations of one address, after one           *)
(* distribution of fees and with no transfer or distribution in between   *)

SameAddress == ADDR_1

NextSameAddress ==
    \/ /\ \A t \in ThreadIds : threads[t].op = "idle" /\ threads[t].calls = 0
       /\ hist.distributed = 0
       /\ distribute_fees
    \/ \E t \in ThreadIds, op \in DividendOps :
          /\ hist.distributed > 0
          /\ Begin(t, op, SameAddress, NoAddr, 0, FALSE)
    \/ \E t \in ThreadIds : Thread_update_account_dividends(t)
    \/ \E t \in ThreadIds : Thread_get_unclaimed_dividends(t)
    \/ \E t \in ThreadIds : Thread_claim_dividends(t)

SpecSameAddress == InitThreads /\ [][NextSameAddress]_vars

(* What a single claim_dividends credits to the address after the         *)
(* distribution: its balance at the distribution times dividend_per_token *)
SingleClaim ==
    ScaledProduct((CHOOSE h \in ThreadHoldings : TRUE)[SameAddress], dividend_per_token)

(* What has been added to the balance of the address *)
CreditedToBalance ==
    accounts[SameAddress].balance - (CHOOSE h \in ThreadHoldings : TRUE)[SameAddress]

(* Dividends a thread carries in a local: new_dividends on its way into *)
(* unclaimed_dividends, or to_claim on its way into the balance         *)
Carries(t) ==
    IF threads[t].op \in DividendOps /\ threads[t].pc = 4 THEN threads[t].n
    ELSE IF At(t, "claim_dividends", 6) THEN threads[t].n
    ELSE 0

(* the address's dividend point is that of the distribution *)
PointMoved == Get(last_dividend_points, SameAddress, FxZero) = dividend_per_token

(* C40: concurrent dividend operations on one address are linearizable:   *)
(* when several threads call claim_dividends, get_unclaimed_dividends and *)
(* update_account_dividends for the same address at once, with no         *)
(* transfer or distribution in between, the total credited to the         *)
(* balance equals what a single claim_dividends would have credited; no   *)
(* dividend is paid twice or lost.                                        *)
C40_SameAddressDividendsLinearizable ==
    hist.distributed > 0 =>
       /\ CreditedToBalance <= SingleClaim
       /\ CreditedToBalance + Get(unclaimed_dividends, SameAddress, 0)
            + SumOver([t \in ThreadIds |-> Carries(t)], ThreadIds)
          = IF PointMoved THEN SingleClaim ELSE 0
       /\ \A t \in ThreadIds :
             Carries(t) > 0 => \A u \in ThreadIds : ~(WaitsOn(t, u) /\ WaitsOn(u, t))
       /\ (last.op = "claim_dividends" /\ last.ret.kind = "Value")
             => CreditedToBalance = SingleClaim

(* two claims at once: one carries the dividends to the balance, the *)
(* other waits for unclaimed_dividends                               *)
C40_Witness ==
    \E t, u \in ThreadIds :
        /\ At(t, "claim_dividends", 6)
        /\ threads[t].n = SingleClaim
        /\ SingleClaim > 0
        /\ At(u, "claim_dividends", 5)
        /\ WaitsOn(u, t)

-----------------------------------------------------------------------------
(* Claims about the reading of unclaimed dividends, checked under SpecClaims *)

(* C39: get_unclaimed_dividends(address) never changes an account balance *)
(* and reports exactly what a claim would pay: with no other operation in *)
(* between, a repeated call returns the same value and a following        *)
(* claim_dividends(address) returns that same value.                      *)
C39_UnclaimedReadIsWhatAClaimPays ==
    [][/\ last'.op = "get_unclaimed_dividends" => accounts' = accounts
       /\ (/\ last.op = "get_unclaimed_dividends"
           /\ last'.op \in {"get_unclaimed_dividends", "claim_dividends"}
           /\ last'.address = last.address)
          => /\ last'.ret.kind = "Value"
             /\ last'.ret.val = last.ret.val]_vars

(* a read that reports dividends which a claim has yet to pay *)
C39_Witness ==
    /\ last.op = "get_unclaimed_dividends"
    /\ last.ret.val > 0
    /\ Get(unclaimed_dividends, last.address, 0) = last.ret.val
    /\ Get(hist.claimed, last.address, 0) = 0

-----------------------------------------------------------------------------
(* Claims about conservation of value, checked under Spec *)

(* The sum of all account balances plus the fee pool *)
TotalValue(accs, pool) ==
    SumOver([a \in DOMAIN accs |-> accs[a].balance], DOMAIN accs) + pool

(* C31: value conservation: every transfer_with_fee call, successful or   *)
(* failed, a transfer from an address to itself included, leaves the sum  *)
(* of all account balances plus fee_pool unchanged.                       *)
C31_TransferConservesValue ==
    [][last'.op = "transfer_with_fee" =>
          TotalValue(accounts', fee_pool') = TotalValue(accounts, fee_pool)]_vars

(* C31 witness: a transfer from an address to itself has returned Ok and *)
(* has paid a fee                                                        *)
C31_Witness ==
    /\ last.op = "transfer_with_fee"
    /\ last.ret.kind = "Ok"
    /\ last.address = last.to_address
    /\ TransferFee(last.amount) > 0
    /\ fee_pool > 0

-----------------------------------------------------------------------------
(* Dividends with transfers between the claims of one distribution *)

OverpayAmounts == {200}

(* Fees are collected until there are MaxOverpayFees tokens of them *)
MaxOverpayFees == 5

InitOverpay == InitHoldings(ReloadHoldings, ReloadFeePools) /\ threads = NoThreads

NextOverpay ==
    \/ distribute_fees
    \/ \E address \in ValidStrings : update_account_dividends(address)
    \/ \E address \in ValidStrings : claim_dividends(address)
    \/ \E amount \in OverpayAmounts :
          /\ hist.distributed + fee_pool < MaxOverpayFees
          /\ transfer_with_fee(ADDR_1, ADDR_2, amount)

SpecOverpay == InitOverpay /\ [][NextOverpay]_vars

(* C32: dividends are never over-paid: after any calls of transfer_with_fee, *)
(* distribute_fees, update_account_dividends and claim_dividends in which    *)
(* total_supply was the sum of all balances at each distribute_fees, the sum *)
(* of the amounts claim_dividends has returned is at most the sum of the     *)
(* amounts distribute_fees has returned.                                     *)
C32_DividendsNeverOverpaid ==
    hist.balanced => SumOver(hist.claimed, DOMAIN hist.claimed) <= hist.distributed

-----------------------------------------------------------------------------
(* Claims about the checkpoint list, checked under SpecCheckpoint *)

(* the record c is an entry of the list list_checkpoints() clones *)
Listed(c) == \E i \in 1..Len(checkpoints) : checkpoints[i] = c

(* the file of the record c exists and begins with c's timestamp and root *)
FileStores(c) ==
    /\ c.file_path \in DOMAIN files
    /\ Len(files[c.file_path]) >= 2
    /\ files[c.file_path][1] = c.timestamp
    /\ files[c.file_path][2] = c.root_hash

(* C33: every entry of list_checkpoints() stays loadable: after any        *)
(* create_checkpoint calls, forced ones within one clock second included,  *)
(* and the pruning they trigger, the file of each listed checkpoint exists *)
(* and stores the entry's own timestamp and root hash, and                 *)
(* load_checkpoint on a listed entry succeeds.                             *)
C33_ListedCheckpointsLoadable ==
    [][/\ \A i \in 1..Len(checkpoints) : FileStores(checkpoints[i])
       /\ (last'.op = "load_checkpoint" /\ Listed(last'.checkpoint))
             => last'.ret.kind = "Ok"]_vars

-----------------------------------------------------------------------------
(* Trees of up to MaxLeaves leaves, the addresses inserted in one order *)

MaxLeaves == 7

HexDigits == <<"1", "2", "3", "4", "5", "6", "7", "8", "9">>

(* "0x" followed by forty times the digit d *)
HexAddress(d) == <<<<"0", 1>>, <<"x", 1>>, <<d, 40>>>>

RebuildStates == {AccountState(0, 0, 0), AccountState(1, 0, 0)}

NextRebuild ==
    \E i \in 1..MaxLeaves, state \in RebuildStates :
        /\ i <= Len(state_tree.leaves) + 1
        /\ update_account(HexAddress(HexDigits[i]), state)

SpecRebuild == Init /\ [][NextRebuild]_vars

RECURSIVE Pairs(_)
(* the parents H(left || right) of the adjacent pairs of a level of even length *)
Pairs(level) ==
    IF level = <<>> THEN <<>>
    ELSE <<Sha256Pair(level[1], level[2])>> \o Pairs(SubSeq(level, 3, Len(level)))

RECURSIVE ReduceLevels(_)
(* The stated rule: duplicate the last node of an odd level, pair up, and *)
(* repeat until one node remains                                          *)
ReduceLevels(level) ==
    LET padded == IF Len(level) % 2 = 1 THEN Append(level, level[Len(level)]) ELSE level
        parents == Pairs(padded)
    IN  IF Len(parents) = 1 THEN parents[1] ELSE ReduceLevels(parents)

StatedRoot(leaves) == IF leaves = <<>> THEN None ELSE Some(ReduceLevels(leaves))

(* C34: rebuild computes the root by the stated rule for every leaf count: *)
(* no leaves give no root; otherwise, level by level, an odd level has its *)
(* last node duplicated, each adjacent pair (left, right) becomes a parent *)
(* with hash H(left || right), until one node remains, whose hash is       *)
(* root_hash().                                                            *)
C34_RebuildFollowsStatedRule ==
    root_hash(state_tree) = StatedRoot(state_tree.leaves)

(* C34 witness: a tree of five leaves, whose leaf level and whose level of *)
(* three parents are both odd                                              *)
C34_Witness ==
    /\ last.op = "update_account"
    /\ Len(state_tree.leaves) = 5
    /\ root_hash(state_tree) # None

-----------------------------------------------------------------------------
(* Claims about the leaves of the tree, checked under SpecMerkle *)

(* The index of the address a in the tree, counted from 0 *)
IndexOf(tree, a) == tree.address_indices[a]

(* C35: after any MerkleTree::update_account calls, leaves has exactly one *)
(* entry per distinct address ever updated, address_indices maps those     *)
(* addresses one-to-one onto 0..len(leaves)-1 in the order of their first  *)
(* insertion, the index of an address never changes, and the update of an  *)
(* existing address changes only the leaf of that address.                 *)
C35_LeavesAndIndices ==
    [][last'.op = "update_account" =>
          LET a == last'.address
              known == DOMAIN state_tree.address_indices
          IN  /\ DOMAIN state_tree'.address_indices = DOMAIN hist'.committed
              /\ Len(state_tree'.leaves) = Cardinality(DOMAIN hist'.committed)
              /\ {IndexOf(state_tree', x) : x \in DOMAIN state_tree'.address_indices}
                   = 0..(Len(state_tree'.leaves) - 1)
              /\ \A x \in known : IndexOf(state_tree', x) = IndexOf(state_tree, x)
              /\ a \notin known => IndexOf(state_tree', a) = Len(state_tree.leaves)
              /\ state_tree'.leaves[IndexOf(state_tree', a) + 1] = Sha256Leaf(a, last'.state)
              /\ \A i \in 1..Len(state_tree.leaves) :
                    i # IndexOf(state_tree', a) + 1
                        => state_tree'.leaves[i] = state_tree.leaves[i]]_vars

(* C35 witness: the first of three addresses has been updated again *)
C35_Witness ==
    /\ last.op = "update_account"
    /\ hist.replaced # None
    /\ hist.replaced # Some(last.state)
    /\ Len(state_tree.leaves) = 3
    /\ IndexOf(state_tree, last.address) = 0

-----------------------------------------------------------------------------
(* Claims about the frame of the ledger operations, checked under SpecUbi *)

(* update_ubi_balance(address) has nothing to grant: the address is unknown, *)
(* the account is unverified, or less than an hour has passed since its     *)
(* last claim time                                                          *)
NothingToGrant(address) ==
    \/ address \notin DOMAIN accounts
    \/ ~accounts[address].verified
    \/ now - accounts[address].last_ubi_claim < TicksPerHour

(* C36: update_ubi_balance returns 0 and leaves balance and last claim time *)
(* unchanged for an unknown address, for an unverified account (every       *)
(* recipient account made by transfer_with_fee is one until verify_account  *)
(* is called on it), and when less than one whole hour has passed since the *)
(* last claim time.                                                         *)
C36_UbiNoOp ==
    [][(last'.op = "update_ubi_balance" /\ NothingToGrant(last'.address)) =>
          /\ last'.ret = RetVal(0)
          /\ accounts' = accounts]_vars

(* C36 witness: update_ubi_balance has returned 0 on an account that a *)
(* transfer made, hours after the transfer                             *)
C36_Witness ==
    /\ last.op = "update_ubi_balance"
    /\ last.ret = RetVal(0)
    /\ last.address \in DOMAIN accounts
    /\ last.address \notin DOMAIN hist.created_at
    /\ ~accounts[last.address].verified
    /\ now - accounts[last.address].last_ubi_claim >= TicksPerHour

-----------------------------------------------------------------------------
(* The ledger with its supply: mints and burns are reported with *)
(* update_total_supply, fees are distributed and claimed         *)

SupplyTransfers == {150}

SupplyChanged == {300}

(* Fees are collected until there are MaxSupplyFees tokens of them *)
MaxSupplyFees == 2

NextSupply ==
    \/ Tick(Times)
    \/ create_account(ADDR_1)
    \/ update_ubi_balance(ADDR_1)
    \/ get_balance(ADDR_1)
    \/ \E amount \in SupplyTransfers :
          /\ hist.distributed + fee_pool < MaxSupplyFees
          /\ transfer_with_fee(ADDR_1, ADDR_2, amount)
    \/ distribute_fees
    \/ \E address \in ValidStrings : claim_dividends(address)
    \/ \E amount \in SupplyChanged, is_addition \in BOOLEAN :
          update_total_supply(amount, is_addition)

SpecSupply == Init /\ [][NextSupply]_vars

(* C37: total_supply is changed only by update_total_supply, which adds   *)
(* amount when is_addition and otherwise subtracts it, saturating at 0,   *)
(* and by load_checkpoint; transfer_with_fee, update_ubi_balance,         *)
(* get_balance, claim_dividends, distribute_fees and create_account leave *)
(* it unchanged, so the Runtime does not keep it equal to the sum of the  *)
(* balances.                                                              *)
C37_TotalSupplyFrame ==
    [][/\ (SameRuntime /\ total_supply' # total_supply)
             => last'.op \in {"update_total_supply", "load_checkpoint"}
       /\ last'.op = "update_total_supply" =>
             total_supply' = IF last'.ret.val = 1
                             THEN total_supply + last'.amount
                             ELSE IF last'.amount > total_supply THEN 0
                             ELSE total_supply - last'.amount]_vars

(* C37 witness: after mints were reported, a UBI grant has raised a *)
(* balance and total_supply is no longer the sum of the balances    *)
C37_Witness ==
    /\ last.op = "update_ubi_balance"
    /\ last.ret.val > 0
    /\ total_supply > 0
    /\ ~SupplyIsSumOfBalances

====
